---- MODULE Spec2Model ----
(***************************************************************************)
(* Oxide: palette generation and palettization engine.                     *)
(*                                                                         *)
(* A colour is a triple <<r, g, b>> of 8-bit channel values (Rgb<u8>; the  *)
(* source indexes channels 0..2, the model 1..3).  A palette is a          *)
(* sequence of colours (Vec<Rgb<u8>>).                                     *)
(*                                                                         *)
(* Distances.  get_distance computes, in f32,                              *)
(*     sqrt((|dr|*0.299/bias)^2 + (|dg|*0.587/bias)^2 + (|db|*0.114/bias)^2) *)
(* The model keeps the exact real value of the squared distance as a       *)
(* fraction num/den of natural numbers (num = 10^6 * d^2 * biasDen^2,      *)
(* den = biasNum^2); sqrt is monotone, so every comparison of two          *)
(* distances in the source is the comparison of the two fractions.  The    *)
(* numbers exceed 32 bits, so they are kept as five base-10000 digits,     *)
(* least significant first.  f32 rounding is not modelled.                 *)
(***************************************************************************)
EXTENDS Integers, Sequences, FiniteSets, TLC

\* ------------------------------------------------------------------------
\* Bounds of the model
\* ------------------------------------------------------------------------
\* red channel samples are 0..MaxShade (consecutive, so that two palette
\* colours can lie at the same distance on either side of a pixel colour)
MaxShade == 2
\* longest palette handed to the single-palette search
MaxPallet == 3
\* longest biased / standard palette handed to the biased search
MaxBiased == 1
MaxStandard == 2
\* largest image handed to a palettization call
MaxWidth == 2
MaxHeight == 2
\* longest palettes handed to a palettization call
MaxImagePallet == 2
MaxImageBiased == 1
\* typed input: any character up to MaxFree characters, then only the digit
\* f up to MaxLen characters
MaxFree == 4
MaxLen == 9
\* palettes and ceilings handed to the condenser
MaxCondPallet == 3
MaxCeiling == 2
\* the first bucket width of the condenser, "a small integer"
MaxFirstWidth == 2
\* the length of the pattern that decides how a channel value exactly halfway
\* between two integers is rounded
MaxTieBits == 2
\* pixels of an image handed to accent detection, and worker threads
MaxPixels == 3
MaxWorkers == 2
\* images in the source directory, and the selection counter's cap when the
\* directory is empty
MaxPaths == 2
MaxSelection == 2

\* ------------------------------------------------------------------------
\* Natural numbers wider than 32 bits
\* ------------------------------------------------------------------------
\* carry propagation over five base-10000 digits, least significant first
Carry(v) ==
    LET t1 == v[1]
        t2 == v[2] + (t1 \div 10000)
        t3 == v[3] + (t2 \div 10000)
        t4 == v[4] + (t3 \div 10000)
        t5 == v[5] + (t4 \div 10000)
    IN  <<t1 % 10000, t2 % 10000, t3 % 10000, t4 % 10000, t5>>

BigOfInt(n) == Carry(<<n, 0, 0, 0, 0>>)
BigScale(k, v) == Carry(<<k * v[1], k * v[2], k * v[3], k * v[4], k * v[5]>>)
BigAdd(a, b) == Carry(<<a[1] + b[1], a[2] + b[2], a[3] + b[3], a[4] + b[4], a[5] + b[5]>>)
BigLess(a, b) ==
    \E i \in 1..Len(a) : a[i] < b[i] /\ \A j \in (i + 1)..Len(a) : a[j] = b[j]
BigIsZero(a) == \A i \in 1..Len(a) : a[i] = 0

\* fractions num/den of such numbers (den a small positive integer)
FracLess(x, y) == BigLess(BigScale(y.den, x.num), BigScale(x.den, y.num))
FracIsZero(x) == BigIsZero(x.num)

Abs(n) == IF n < 0 THEN -n ELSE n

\* ------------------------------------------------------------------------
\* ColorMath (pallet.rs)
\* ------------------------------------------------------------------------
None == "None"

\* luma weights of get_distance, times 1000
WeightR == 299
WeightG == 587
WeightB == 114

\* standard_bias() = 1.5, as the fraction 3/2
standard_bias == <<3, 2>>

white == <<255, 255, 255>>
black == <<0, 0, 0>>

\* bias.unwrap_or(1.0)
unwrap_or_one(bias) == IF bias = None THEN <<1, 1>> ELSE bias

\* mutant: the channel difference is a saturating subtraction, without abs()
get_distance_saturating(color_1, color_2, bias) ==
    LET bs == unwrap_or_one(bias)
        sub(x, y) == IF x > y THEN x - y ELSE 0
        r == sub(color_1[1], color_2[1]) * WeightR
        g == sub(color_1[2], color_2[2]) * WeightG
        b == sub(color_1[3], color_2[3]) * WeightB
        sum == BigAdd(BigAdd(BigScale(r, BigOfInt(r)), BigScale(g, BigOfInt(g))),
                      BigScale(b, BigOfInt(b)))
    IN  [num |-> BigScale(bs[2] * bs[2], sum), den |-> bs[1] * bs[1]]

\* mutant: the bias multiplies instead of dividing
get_distance_bias_multiplies(color_1, color_2, bias) ==
    LET bs == unwrap_or_one(bias)
        r == Abs(color_1[1] - color_2[1]) * WeightR
        g == Abs(color_1[2] - color_2[2]) * WeightG
        b == Abs(color_1[3] - color_2[3]) * WeightB
        sum == BigAdd(BigAdd(BigScale(r, BigOfInt(r)), BigScale(g, BigOfInt(g))),
                      BigScale(b, BigOfInt(b)))
    IN  [num |-> BigScale(bs[1] * bs[1], sum), den |-> bs[2] * bs[2]]

\* the square of get_distance(color_1, color_2, bias), times 10^6
get_distance(color_1, color_2, bias) ==
    LET bs == unwrap_or_one(bias)
        r == Abs(color_1[1] - color_2[1]) * WeightR
        g == Abs(color_1[2] - color_2[2]) * WeightG
        b == Abs(color_1[3] - color_2[3]) * WeightB
        sum == BigAdd(BigAdd(BigScale(r, BigOfInt(r)), BigScale(g, BigOfInt(g))),
                      BigScale(b, BigOfInt(b)))
    IN  [num |-> BigScale(bs[2] * bs[2], sum), den |-> bs[1] * bs[1]]

\* the loop of get_closest_color over pallet[i..], carrying closest_color
\* and closest_distance
RECURSIVE closest_scan(_, _, _, _, _)
closest_scan(pallet, color, i, closest_color, closest_distance) ==
    IF i > Len(pallet) THEN closest_color
    ELSE LET distance == get_distance(color, pallet[i], None) IN
         IF FracLess(distance, closest_distance)
         THEN closest_scan(pallet, color, i + 1, pallet[i], distance)
         ELSE closest_scan(pallet, color, i + 1, closest_color, closest_distance)

\* mutant: a later colour at the same distance replaces the current one
RECURSIVE closest_scan_last_wins(_, _, _, _, _)
closest_scan_last_wins(pallet, color, i, closest_color, closest_distance) ==
    IF i > Len(pallet) THEN closest_color
    ELSE LET distance == get_distance(color, pallet[i], None) IN
         IF ~FracLess(closest_distance, distance)
         THEN closest_scan_last_wins(pallet, color, i + 1, pallet[i], distance)
         ELSE closest_scan_last_wins(pallet, color, i + 1, closest_color, closest_distance)

get_closest_color_last_wins(pallet, color) ==
    IF pallet = <<>> THEN color
    ELSE closest_scan_last_wins(pallet, color, 2, pallet[1],
                                get_distance(color, pallet[1], None))

get_closest_color(pallet, color) ==
    IF pallet = <<>> THEN color
    ELSE closest_scan(pallet, color, 2, pallet[1], get_distance(color, pallet[1], None))

\* the second and third loops of get_closest_color_biased
RECURSIVE biased_scan(_, _, _, _, _, _)
biased_scan(pallet, bias, color, i, closest_color, closest_distance) ==
    IF i > Len(pallet) THEN [color |-> closest_color, distance |-> closest_distance]
    ELSE LET distance == get_distance(color, pallet[i], bias) IN
         IF FracLess(distance, closest_distance)
         THEN biased_scan(pallet, bias, color, i + 1, pallet[i], distance)
         ELSE biased_scan(pallet, bias, color, i + 1, closest_color, closest_distance)

get_closest_color_biased(biased_pallet, standard_pallet, color) ==
    IF biased_pallet = <<>> \/ biased_pallet = <<>> THEN color
    ELSE LET first == biased_scan(biased_pallet, standard_bias, color, 2,
                                  biased_pallet[1],
                                  get_distance(color, biased_pallet[1], standard_bias))
         IN  biased_scan(standard_pallet, None, color, 1,
                         first.color, first.distance).color

\* ------------------------------------------------------------------------
\* ColorMath of the CPU strategy (tooling.rs, mod pallet)
\* ------------------------------------------------------------------------
\* get_distance_score: (|dr|/0.299)^2 + (|dg|/0.587)^2 + (|db|/0.114)^2,
\* brought to the common denominator (0.299 * 0.587 * 0.114)^2
get_distance_score(color_1, color_2) ==
    LET r == Abs(color_1[1] - color_2[1])
        g == Abs(color_1[2] - color_2[2])
        b == Abs(color_1[3] - color_2[3])
        gb == WeightG * WeightB
        rb == WeightR * WeightB
        rg == WeightR * WeightG
        sum == BigAdd(BigAdd(BigScale(gb, BigScale(gb, BigOfInt(r * r))),
                             BigScale(rb, BigScale(rb, BigOfInt(g * g)))),
                      BigScale(rg, BigScale(rg, BigOfInt(b * b))))
    IN  [num |-> sum, den |-> 1]

\* the loop of tooling.rs get_closest_color, with its early exit
RECURSIVE tooling_closest_scan(_, _, _, _, _)
tooling_closest_scan(pallet, color, i, closest_color, closest_distance_score) ==
    IF i > Len(pallet) THEN closest_color
    ELSE LET distance_score == get_distance_score(color, pallet[i]) IN
         IF FracLess(distance_score, closest_distance_score)
         THEN IF FracIsZero(distance_score) THEN pallet[i]
              ELSE tooling_closest_scan(pallet, color, i + 1, pallet[i], distance_score)
         ELSE tooling_closest_scan(pallet, color, i + 1, closest_color,
                                   closest_distance_score)

tooling_get_closest_color(pallet, color) ==
    IF pallet = <<>> THEN color
    ELSE tooling_closest_scan(pallet, color, 2, pallet[1],
                              get_distance_score(color, pallet[1]))

\* ------------------------------------------------------------------------
\* State
\* ------------------------------------------------------------------------
VARIABLES
    \* nearest-colour queries
    color,              \* the pixel colour of the query
    biased_pallet,      \* the preferred palette of the biased search
    standard_pallet,    \* the palette (the fallback palette of the biased search)
    closest,            \* the colours the three searches returned, once done
    \* one palettization call
    source_image,       \* [width, height, px]: px maps <<x, y>> to a colour
    pallet,             \* the palette of the call (the standard one when biased)
    pallet_biased,      \* the preferred palette of process_biased
    strategy,           \* "cpu", "gpu_evenly" or "gpu_biased"
    cpu,                \* the state of each run of tooling.rs palletize
    gpu,                \* the state of compute.rs process_evenly / process_biased
    \* hex colour input
    arg,                \* the text handed to is_hex and as_rgb
    parsed,             \* what is_hex and as_rgb returned for the text, once called
    input,              \* the text of the current step of the guide
    edit,               \* the MonochromaticEdit that owns the step
    \* one call of the condenser
    cond,               \* [input, ceiling, first_width, done, result]
    \* one call of a spectrum builder
    seeds,              \* the colours handed to the builder
    tie_oracle,         \* how the f64 sums that land on a half are rounded
    spectrum,           \* [op, colors]: the builder called and what it returned
    \* one call of get_accent_color
    accent,             \* the image's pixels, the worker count and the locals
    \* one call of an edit's try_process
    process,            \* the edit, whether the image opens, and what was called
    \* one call of get_3d_spectrum
    volume,             \* the seeds, the build, the loop's blue value, the spectrum
    \* App (app.rs)
    app,                \* the page, the selections and how the program ended
    \* two calls of get_2d_spectrum and the search of a pixel in both results
    plane               \* the seeds, the loop's index, the palettes, the searches

searchVars == <<color, biased_pallet, standard_pallet, closest>>
imageVars == <<source_image, pallet, pallet_biased, strategy, cpu, gpu>>
hexVars == <<arg, parsed, input, edit>>
condVars == <<cond>>
spectrumVars == <<seeds, tie_oracle, spectrum>>
accentVars == <<accent>>
processVars == <<process>>
volumeVars == <<volume>>
appVars == <<app>>
planeVars == <<plane>>
vars == <<searchVars, imageVars, hexVars, condVars, spectrumVars, accentVars,
          processVars, volumeVars, appVars, planeVars>>

\* sample colours: consecutive reds and greens
Colors == {<<r, g, 0>> : r \in 0..MaxShade, g \in {0, 1}}

\* ------------------------------------------------------------------------
\* Nearest-colour queries
\* ------------------------------------------------------------------------
NoResult == [done |-> FALSE, gpu |-> black, cpu |-> black, biased |-> black]

SearchIdle ==
    /\ color = black
    /\ biased_pallet = <<>>
    /\ standard_pallet = <<>>
    /\ closest = NoResult

SearchInit ==
    /\ color \in Colors
    /\ biased_pallet = <<>>
    /\ standard_pallet = <<>>
    /\ closest = NoResult

\* the caller builds the palette colour by colour
PushStandard(limit) ==
    /\ ~closest.done
    /\ Len(standard_pallet) < limit
    /\ \E c \in Colors : standard_pallet' = Append(standard_pallet, c)
    /\ UNCHANGED <<color, biased_pallet, closest>>

PushBiased(limit) ==
    /\ ~closest.done
    /\ Len(biased_pallet) < limit
    /\ \E c \in Colors : biased_pallet' = Append(biased_pallet, c)
    /\ UNCHANGED <<color, standard_pallet, closest>>

\* one call of each search on the same arguments
Search ==
    /\ ~closest.done
    /\ closest' = [done   |-> TRUE,
                   gpu    |-> get_closest_color(standard_pallet, color),
                   cpu    |-> tooling_get_closest_color(standard_pallet, color),
                   biased |-> get_closest_color_biased(biased_pallet, standard_pallet,
                                                       color)]
    /\ UNCHANGED <<color, biased_pallet, standard_pallet>>

PushPallet == PushStandard(MaxPallet)
PushBiasedPallet == PushBiased(MaxBiased)
PushStandardPallet == PushStandard(MaxStandard)

\* ------------------------------------------------------------------------
\* Images
\* ------------------------------------------------------------------------
Coords(w, h) == (0..(w - 1)) \X (0..(h - 1))

\* ImageBuffer::new(width, height): every pixel zeroed
ImageBuffer_new(w, h) ==
    [width |-> w, height |-> h, px |-> [p \in Coords(w, h) |-> black]]

\* sample pixel and palette colours: <<1, 0, 0>> lies at the same distance
\* from <<0, 0, 0>> and <<2, 0, 0>>
PixelColors == {<<1, 0, 0>>, <<2, 255, 0>>}
PalColors == {<<0, 0, 0>>, <<2, 0, 0>>, <<2, 255, 0>>}

\* an image of one colour with one pixel of another colour at `mark`: a pixel
\* stored at a wrong coordinate shows in the output
Marked(w, h, mark, fg, bg) ==
    [width |-> w, height |-> h,
     px |-> [p \in Coords(w, h) |-> IF p = mark THEN fg ELSE bg]]

ColorPairs == {pair \in PixelColors \X PixelColors : pair[1] # pair[2]}

Images ==
    UNION {{Marked(w, h, m, pair[1], pair[2]) : m \in Coords(w, h), pair \in ColorPairs} :
           w \in 1..MaxWidth, h \in 1..MaxHeight}

CornerImages == {img \in Images : img.px[<<0, 0>>] # img.px[<<img.width - 1, img.height - 1>>]
                                  \/ img.width * img.height = 1}

SeqsUpTo(S, n) == UNION {[1..k -> S] : k \in 0..n}

\* put_pixel for each (x, y, pixel) of a list in order; buf.puts counts the
\* writes of every coordinate, buf.ok turns false on a coordinate outside the
\* image (put_pixel panics)
RECURSIVE put_pixels(_, _)
put_pixels(buf, triples) ==
    IF triples = <<>> THEN buf
    ELSE LET t == Head(triples)
             at == <<t[1], t[2]>>
         IN  IF at \notin DOMAIN buf.px THEN [buf EXCEPT !.ok = FALSE]
             ELSE put_pixels([buf EXCEPT !.px[at] = t[3], !.puts[at] = @ + 1],
                             Tail(triples))

NewBuffer(img) ==
    [px   |-> ImageBuffer_new(img.width, img.height).px,
     puts |-> [p \in Coords(img.width, img.height) |-> 0],
     ok   |-> TRUE]

\* ------------------------------------------------------------------------
\* CPU strategy: palletize (tooling.rs)
\* ------------------------------------------------------------------------
\* pixels between two percentage reports
ProgressInterval == 20000

Runs == 1..2

\* first_row and fetched are history variables: the row whose closure drew 0
\* from the shared counter, and the values fetch_add returned, in order
CpuIdle(img) ==
    [phase         |-> "idle",
     row           |-> [y \in 0..(img.height - 1) |-> <<>>],
     pixels_edited |-> 0,
     first_row     |-> -1,
     fetched       |-> <<>>,
     progress      |-> <<>>,
     emitted       |-> 0,
     buffer        |-> NewBuffer(img)]

\* (pixels_edited_internal as f64 / pixel_count as f64 * 100.0).round()
percentage(pixels_edited_internal, pixel_count) ==
    (200 * pixels_edited_internal + pixel_count) \div (2 * pixel_count)

\* the pixels one row closure visits: for x in 0..width
row_length(img) == img.width

\* palletize up to the parallel phase
CpuStart(r) ==
    /\ strategy = "cpu"
    /\ cpu[r].phase = "idle"
    /\ cpu' = [cpu EXCEPT ![r].phase = "editing",
                          ![r].progress = <<[text |-> "Editing pixels...", percent |-> 0]>>]
    /\ UNCHANGED <<source_image, pallet, pallet_biased, strategy, gpu>>

\* mutant: the pixel is filed under the position the shared counter gives it
CpuPixelByArrival(r, y) ==
    /\ cpu[r].phase = "editing"
    /\ Len(cpu[r].row[y]) < row_length(source_image)
    /\ LET x == Len(cpu[r].row[y])
           pixel == source_image.px[<<x, y>>]
           new_pixel == tooling_get_closest_color(pallet, pixel)
           pixels_edited_internal == cpu[r].pixels_edited
       IN  cpu' = [cpu EXCEPT
                ![r].row[y] = Append(@, <<pixels_edited_internal % source_image.width,
                                          pixels_edited_internal \div source_image.width,
                                          new_pixel>>),
                ![r].pixels_edited = @ + 1,
                ![r].first_row = IF pixels_edited_internal = 0 THEN y ELSE @,
                ![r].fetched = Append(@, pixels_edited_internal)]
    /\ UNCHANGED <<source_image, pallet, pallet_biased, strategy, gpu>>

\* mutant: the counter hands out its value after the addition
CpuPixelAddFetch(r, y) ==
    /\ cpu[r].phase = "editing"
    /\ Len(cpu[r].row[y]) < row_length(source_image)
    /\ LET x == Len(cpu[r].row[y])
           pixel == source_image.px[<<x, y>>]
           new_pixel == tooling_get_closest_color(pallet, pixel)
           pixels_edited_internal == cpu[r].pixels_edited + 1
           pixel_count == source_image.width * source_image.height
       IN  cpu' = [cpu EXCEPT
                ![r].row[y] = Append(@, <<x, y, new_pixel>>),
                ![r].pixels_edited = @ + 1,
                ![r].first_row = IF pixels_edited_internal = 0 THEN y ELSE @,
                ![r].fetched = Append(@, pixels_edited_internal),
                ![r].progress =
                    IF pixels_edited_internal % ProgressInterval = 0
                    THEN Append(@, [text |-> "Editing pixels... % complete",
                                    percent |-> percentage(pixels_edited_internal,
                                                           pixel_count)])
                    ELSE @]
    /\ UNCHANGED <<source_image, pallet, pallet_biased, strategy, gpu>>

\* one iteration of the x loop of the closure of row y
CpuPixel(r, y) ==
    /\ cpu[r].phase = "editing"
    /\ Len(cpu[r].row[y]) < row_length(source_image)
    /\ LET x == Len(cpu[r].row[y])
           pixel == source_image.px[<<x, y>>]
           new_pixel == tooling_get_closest_color(pallet, pixel)
           pixels_edited_internal == cpu[r].pixels_edited
           pixel_count == source_image.width * source_image.height
       IN  cpu' = [cpu EXCEPT
                ![r].row[y] = Append(@, <<x, y, new_pixel>>),
                ![r].pixels_edited = @ + 1,
                ![r].first_row = IF pixels_edited_internal = 0 THEN y ELSE @,
                ![r].fetched = Append(@, pixels_edited_internal),
                ![r].progress =
                    IF pixels_edited_internal % ProgressInterval = 0
                    THEN Append(@, [text |-> "Editing pixels... % complete",
                                    percent |-> percentage(pixels_edited_internal,
                                                           pixel_count)])
                    ELSE @]
    /\ UNCHANGED <<source_image, pallet, pallet_biased, strategy, gpu>>

\* flat_map(..).collect(): the rows in the order of y
RECURSIVE flat_rows(_, _, _)
flat_rows(row, y, height) ==
    IF y >= height THEN <<>> ELSE row[y] \o flat_rows(row, y + 1, height)

\* the serial tail of palletize: collect, then put_pixel for every triple
CpuFill(r) ==
    /\ cpu[r].phase = "editing"
    /\ \A y \in 0..(source_image.height - 1) :
           Len(cpu[r].row[y]) >= row_length(source_image)
    /\ LET rows == flat_rows(cpu[r].row, 0, source_image.height)
           filled == put_pixels(cpu[r].buffer, rows)
       IN  cpu' = [cpu EXCEPT
                ![r].phase = IF filled.ok THEN "done" ELSE "panic",
                ![r].progress = Append(@, [text |-> "Filling new image...", percent |-> 0]),
                ![r].emitted = Len(rows),
                ![r].buffer = filled]
    /\ UNCHANGED <<source_image, pallet, pallet_biased, strategy, gpu>>

\* ------------------------------------------------------------------------
\* GPU strategy: process_evenly / process_biased (compute.rs)
\* ------------------------------------------------------------------------
GpuIdle(img) ==
    [phase          |-> "idle",
     pixels         |-> <<>>,
     shader_results |-> <<>>,
     new_pixels     |-> <<>>,
     emitted        |-> 0,
     buffer         |-> NewBuffer(img)]

\* source_image.pixels(): the pixels row by row, x fastest
image_pixels(img) ==
    [i \in 1..(img.width * img.height) |->
        img.px[<<(i - 1) % img.width, (i - 1) \div img.width>>]]

\* The compute kernels (palletize_evenly.wgsl, palletize_biased.wgsl): for
\* each pixel the nearest-colour search of ColorMath, returning the index
\* (from 0) of the colour instead of the colour.
RECURSIVE kernel_scan(_, _, _, _, _, _)
kernel_scan(pal, bias, pixel, i, closest_index, closest_distance) ==
    IF i > Len(pal) THEN [index |-> closest_index, distance |-> closest_distance]
    ELSE LET distance == get_distance(pixel, pal[i], bias) IN
         IF FracLess(distance, closest_distance)
         THEN kernel_scan(pal, bias, pixel, i + 1, i - 1, distance)
         ELSE kernel_scan(pal, bias, pixel, i + 1, closest_index, closest_distance)

kernel_evenly(pal, pixel) ==
    IF pal = <<>> THEN 0
    ELSE kernel_scan(pal, None, pixel, 2, 0, get_distance(pixel, pal[1], None)).index

\* index space: the biased palette first, the standard palette after it
kernel_biased(biased, standard, pixel) ==
    IF biased = <<>> /\ standard = <<>> THEN 0
    ELSE IF biased = <<>>
    THEN kernel_scan(standard, None, pixel, 2, 0,
                     get_distance(pixel, standard[1], None)).index
    ELSE LET first == kernel_scan(biased, standard_bias, pixel, 2, 0,
                                  get_distance(pixel, biased[1], standard_bias))
             second == kernel_scan(standard, None, pixel, 1, -1, first.distance)
         IN  IF second.index = -1 THEN first.index ELSE Len(biased) + second.index

\* mutant: the row is found by dividing by the height
y_index_by_height(x, width, height) == x \div height

\* mutant: the column is found by reducing modulo the height
x_index_by_height(x, width, height) == x % height

\* x_index and y_index of the fill loop
x_index(x, width, height) == x % width
y_index(x, width, height) == x \div width

\* let pixels = source_image.pixels()...collect()
GpuCollect ==
    /\ strategy \in {"gpu_evenly", "gpu_biased"}
    /\ gpu.phase = "idle"
    /\ gpu' = [gpu EXCEPT !.phase = "collected", !.pixels = image_pixels(source_image)]
    /\ UNCHANGED <<source_image, pallet, pallet_biased, strategy, cpu>>

\* Gpu::palletize_evenly up to the read-back of the result buffer, which
\* holds one u32 per pixel
GpuDispatchEvenly ==
    /\ strategy = "gpu_evenly"
    /\ gpu.phase = "collected"
    /\ gpu' = [gpu EXCEPT
            !.phase = "dispatched",
            !.shader_results = [i \in 1..Len(gpu.pixels) |->
                                   kernel_evenly(pallet, gpu.pixels[i])]]
    /\ UNCHANGED <<source_image, pallet, pallet_biased, strategy, cpu>>

GpuDispatchBiased ==
    /\ strategy = "gpu_biased"
    /\ gpu.phase = "collected"
    /\ gpu' = [gpu EXCEPT
            !.phase = "dispatched",
            !.shader_results = [i \in 1..Len(gpu.pixels) |->
                                   kernel_biased(pallet_biased, pallet, gpu.pixels[i])]]
    /\ UNCHANGED <<source_image, pallet, pallet_biased, strategy, cpu>>

\* pallet[index as usize] for every index; indexing past the end panics
GpuTranslateEvenly ==
    /\ strategy = "gpu_evenly"
    /\ gpu.phase = "dispatched"
    /\ IF \E i \in 1..Len(gpu.shader_results) : gpu.shader_results[i] >= Len(pallet)
       THEN gpu' = [gpu EXCEPT !.phase = "panic"]
       ELSE LET new_pixels == [i \in 1..Len(gpu.shader_results) |->
                                  pallet[gpu.shader_results[i] + 1]]
            IN  gpu' = [gpu EXCEPT
                     !.phase = IF Len(new_pixels) # Len(gpu.pixels)
                               THEN "panic" ELSE "translated",
                     !.new_pixels = new_pixels]
    /\ UNCHANGED <<source_image, pallet, pallet_biased, strategy, cpu>>

biased_index_ok(index) ==
    IF index >= Len(pallet_biased)
    THEN index - Len(pallet_biased) < Len(pallet)
    ELSE TRUE

biased_lookup(index) ==
    IF index >= Len(pallet_biased)
    THEN pallet[index - Len(pallet_biased) + 1]
    ELSE pallet_biased[index + 1]

GpuTranslateBiased ==
    /\ strategy = "gpu_biased"
    /\ gpu.phase = "dispatched"
    /\ IF \E i \in 1..Len(gpu.shader_results) : ~biased_index_ok(gpu.shader_results[i])
       THEN gpu' = [gpu EXCEPT !.phase = "panic"]
       ELSE LET new_pixels == [i \in 1..Len(gpu.shader_results) |->
                                  biased_lookup(gpu.shader_results[i])]
            IN  gpu' = [gpu EXCEPT
                     !.phase = IF Len(new_pixels) # Len(gpu.pixels)
                               THEN "panic" ELSE "translated",
                     !.new_pixels = new_pixels]
    /\ UNCHANGED <<source_image, pallet, pallet_biased, strategy, cpu>>

\* the fill loop of process_evenly / process_biased
GpuFill ==
    /\ gpu.phase = "translated"
    /\ LET width == source_image.width
           height == source_image.height
           triples == [i \in 1..Len(gpu.new_pixels) |->
                          <<x_index(i - 1, width, height),
                            y_index(i - 1, width, height),
                            gpu.new_pixels[i]>>]
           filled == put_pixels(gpu.buffer, triples)
       IN  gpu' = [gpu EXCEPT
                !.phase = IF filled.ok THEN "done" ELSE "panic",
                !.emitted = Len(gpu.new_pixels),
                !.buffer = filled]
    /\ UNCHANGED <<source_image, pallet, pallet_biased, strategy, cpu>>

\* ------------------------------------------------------------------------
\* Hex colour codes (pallet.rs is_hex, as_rgb; tooling.rs has the same text)
\* ------------------------------------------------------------------------
\* characters are one-character strings; "e'" stands for a two-byte character
\* (U+00E9)
TwoByte == "e'"
Alphabet == {"#", "f", "0", "g", "+", TwoByte}

\* char::is_ascii_hexdigit and the digit's value
HexDigits ==
    [c \in {"0", "1", "2", "3", "4", "5", "6", "7", "8", "9",
            "a", "b", "c", "d", "e", "f", "A", "B", "C", "D", "E", "F"} |->
        CASE c = "0" -> 0 [] c = "1" -> 1 [] c = "2" -> 2 [] c = "3" -> 3
          [] c = "4" -> 4 [] c = "5" -> 5 [] c = "6" -> 6 [] c = "7" -> 7
          [] c = "8" -> 8 [] c = "9" -> 9
          [] c \in {"a", "A"} -> 10 [] c \in {"b", "B"} -> 11
          [] c \in {"c", "C"} -> 12 [] c \in {"d", "D"} -> 13
          [] c \in {"e", "E"} -> 14 [] c \in {"f", "F"} -> 15]
is_ascii_hexdigit(c) == c \in DOMAIN HexDigits

\* the UTF-8 bytes of a text: one <<character, k>> for its k-th byte
utf8_len(c) == IF c = TwoByte THEN 2 ELSE 1
RECURSIVE utf8(_)
utf8(text) ==
    IF text = <<>> THEN <<>>
    ELSE [k \in 1..utf8_len(Head(text)) |-> <<Head(text), k>>] \o utf8(Tail(text))

\* str::trim_start_matches('#'): every leading '#' is removed
RECURSIVE trim_start_matches(_)
trim_start_matches(text) ==
    IF text # <<>> /\ Head(text) = "#" THEN trim_start_matches(Tail(text)) ELSE text

\* &hex[from..to] on byte offsets: a panic unless both offsets are character
\* boundaries, else the characters between them
is_char_boundary(bytes, at) == at = Len(bytes) \/ (at < Len(bytes) /\ bytes[at + 1][2] = 1)
slice(bytes, from, to) ==
    IF ~(is_char_boundary(bytes, from) /\ is_char_boundary(bytes, to))
    THEN [panic |-> TRUE, text |-> <<>>]
    ELSE LET firsts == SelectSeq(SubSeq(bytes, from + 1, to), LAMBDA b : b[2] = 1)
         IN  [panic |-> FALSE, text |-> [k \in 1..Len(firsts) |-> firsts[k][1]]]

\* u8::from_str_radix(src, 16): an optional '+', then one or more hex digits
\* whose value fits 8 bits; Err otherwise
Ok(v) == [ok |-> TRUE, value |-> v]
Err == [ok |-> FALSE, value |-> 0]
RECURSIVE digits_value(_, _)
digits_value(digits, acc) ==
    IF digits = <<>> THEN acc
    ELSE digits_value(Tail(digits), 16 * acc + HexDigits[Head(digits)])
from_str_radix(src) ==
    LET digits == IF src # <<>> /\ Head(src) = "+" THEN Tail(src) ELSE src IN
    IF digits = <<>> THEN Err
    ELSE IF \E k \in 1..Len(digits) : ~is_ascii_hexdigit(digits[k]) THEN Err
    ELSE IF digits_value(digits, 0) > 255 THEN Err
    ELSE Ok(digits_value(digits, 0))

\* str::repeat(2)
repeat2(text) == text \o text

is_hex(code) ==
    LET trimmed == trim_start_matches(code)
        bytes == utf8(trimmed)
    IN  /\ Len(bytes) \in {3, 6, 8}
        /\ \A k \in 1..Len(trimmed) : is_ascii_hexdigit(trimmed[k])

\* one `u8::from_str_radix(&hex[from..to]..., 16).ok()?` of as_rgb: a panic,
\* Err or the value; `twice` is the .repeat(2) of the three-digit form
channel(bytes, from, to, twice) ==
    LET part == slice(bytes, from, to) IN
    IF part.panic THEN [panic |-> TRUE, parse |-> Err]
    ELSE [panic |-> FALSE,
          parse |-> from_str_radix(IF twice THEN repeat2(part.text) ELSE part.text)]

\* the channels are evaluated in order; the first Panic or Err ends the call
RECURSIVE channels(_, _, _, _)
channels(bytes, ranges, twice, acc) ==
    IF ranges = <<>> THEN [kind |-> "Some", rgb |-> <<acc[1], acc[2], acc[3]>>]
    ELSE LET v == channel(bytes, Head(ranges)[1], Head(ranges)[2], twice) IN
         IF v.panic THEN [kind |-> "Panic", rgb |-> black]
         ELSE IF ~v.parse.ok THEN [kind |-> "None", rgb |-> black]
         ELSE channels(bytes, Tail(ranges), twice, Append(acc, v.parse.value))

\* mutant: the three-digit form parses each digit once
as_rgb_no_repeat(hex) ==
    LET bytes == utf8(trim_start_matches(hex)) IN
    CASE Len(bytes) = 3 -> channels(bytes, <<<<0, 1>>, <<1, 2>>, <<2, 3>>>>, FALSE, <<>>)
      [] Len(bytes) = 6 -> channels(bytes, <<<<0, 2>>, <<2, 4>>, <<4, 6>>>>, FALSE, <<>>)
      [] Len(bytes) = 8 ->
             channels(bytes, <<<<0, 2>>, <<2, 4>>, <<4, 6>>, <<6, 8>>>>, FALSE, <<>>)
      [] OTHER -> [kind |-> "None", rgb |-> black]

\* as_rgb: [kind |-> "Some", rgb |-> colour], [kind |-> "None"] or a panic
as_rgb(hex) ==
    LET bytes == utf8(trim_start_matches(hex)) IN
    CASE Len(bytes) = 3 -> channels(bytes, <<<<0, 1>>, <<1, 2>>, <<2, 3>>>>, TRUE, <<>>)
      [] Len(bytes) = 6 -> channels(bytes, <<<<0, 2>>, <<2, 4>>, <<4, 6>>>>, FALSE, <<>>)
      [] Len(bytes) = 8 ->
             channels(bytes, <<<<0, 2>>, <<2, 4>>, <<4, 6>>, <<6, 8>>>>, FALSE, <<>>)
      [] OTHER -> [kind |-> "None", rgb |-> black]

\* ProcessingStep::as_hex
as_hex(text) == IF is_hex(text) THEN [kind |-> "Some", hex |-> text]
                ELSE [kind |-> "None", hex |-> <<>>]

\* char::to_uppercase().next().unwrap() on the keys of Alphabet
to_uppercase(c) == CASE c = "f" -> "F" [] c = "g" -> "G" [] OTHER -> c

\* the texts handed to is_hex and as_rgb: any characters up to MaxFree, then
\* one character repeated, up to MaxLen characters in all
FreeTexts == UNION {[1..n -> Alphabet] : n \in 0..MaxFree}
Texts ==
    {t \o [k \in 1..m |-> c] : t \in FreeTexts, c \in Alphabet, m \in 0..(MaxLen - MaxFree)}

NotParsed == [done |-> FALSE, is_hex |-> FALSE, as_rgb |-> [kind |-> "None", rgb |-> black]]

\* MonochromaticEdit::new: one Color step, the guide at step 0; last_key is a
\* history variable, new_image is App::new_image
NewEdit ==
    [steps          |-> 1,
     current_step   |-> 0,
     base_color_hex |-> <<"n", "o", "n", "e">>,
     base_color_rgb |-> black,
     is_ready       |-> FALSE,
     panicked       |-> FALSE,
     last_key       |-> "none",
     new_image      |-> "None"]

HexIdle ==
    /\ arg = <<>>
    /\ parsed = [NotParsed EXCEPT !.done = TRUE]
    /\ input = <<>>
    /\ edit = [NewEdit EXCEPT !.is_ready = TRUE]

\* a call of is_hex and as_rgb on an arbitrary text
HexInit ==
    /\ arg \in Texts
    /\ parsed = NotParsed
    /\ input = <<>>
    /\ edit = [NewEdit EXCEPT !.is_ready = TRUE]

Parse ==
    /\ ~parsed.done
    /\ parsed' = [done |-> TRUE, is_hex |-> is_hex(arg), as_rgb |-> as_rgb(arg)]
    /\ UNCHANGED <<arg, input, edit>>

\* the Preprocessing page with a MonochromaticEdit and an empty step
WizardInit ==
    /\ arg = <<>>
    /\ parsed = [NotParsed EXCEPT !.done = TRUE]
    /\ input = <<>>
    /\ edit = NewEdit

\* term_tools::keyboard followed by update_current_step_input, for a
\* character key
TypeChar ==
    /\ ~edit.is_ready /\ ~edit.panicked
    /\ Len(input) < MaxLen
    /\ \E c \in Alphabet :
           /\ Len(input) >= MaxFree => c = "f"
           /\ input' = Append(input, to_uppercase(c))
    /\ edit' = [edit EXCEPT !.last_key = "char"]
    /\ UNCHANGED <<arg, parsed>>

\* term_tools::keyboard followed by update_current_step_input, for Backspace:
\* String::remove(len - 1) panics when the last byte does not start a character
Backspace ==
    /\ ~edit.is_ready /\ ~edit.panicked
    /\ IF input = <<>> THEN edit' = [edit EXCEPT !.last_key = "backspace"] /\ UNCHANGED input
       ELSE IF utf8_len(input[Len(input)]) > 1
            THEN /\ edit' = [edit EXCEPT !.panicked = TRUE, !.last_key = "backspace"]
                 /\ UNCHANGED input
            ELSE /\ input' = SubSeq(input, 1, Len(input) - 1)
                 /\ edit' = [edit EXCEPT !.last_key = "backspace"]
    /\ UNCHANGED <<arg, parsed>>

\* ProcessingGuide::is_ready
guide_is_ready(e) == e.current_step >= e.steps - 1

\* MonochromaticEdit::try_finish_current_step
try_finish_current_step(e, text) ==
    IF is_hex(text) /\ ~guide_is_ready(e) THEN [e EXCEPT !.current_step = @ + 1] ELSE e

\* MonochromaticEdit::try_populate; unwrap() of None, or a panic inside
\* as_rgb, ends the program
try_populate(e, text) ==
    IF ~guide_is_ready(e) THEN e
    ELSE LET base_color_hex_result == as_hex(text) IN
         IF base_color_hex_result.kind = "Some"
         THEN LET rgb == as_rgb(base_color_hex_result.hex) IN
              IF rgb.kind = "Some"
              THEN [e EXCEPT !.base_color_hex = base_color_hex_result.hex,
                             !.base_color_rgb = rgb.rgb,
                             !.is_ready = TRUE]
              ELSE [e EXCEPT !.base_color_hex = base_color_hex_result.hex,
                             !.panicked = TRUE]
         ELSE e

\* MonochromaticEdit::try_process: None unless the edit is ready and the
\* source image opens
MonochromaticEdit_try_process(e, opens) ==
    IF ~e.is_ready THEN "None" ELSE IF opens THEN "Some" ELSE "None"

\* the Enter key on the Preprocessing page: try_finish_current_step,
\* try_populate, then try_process, whose result becomes App::new_image
Enter ==
    /\ ~edit.is_ready /\ ~edit.panicked
    /\ \E opens \in BOOLEAN :
           LET populated == try_populate(try_finish_current_step(edit, input), input)
           IN  edit' = [populated EXCEPT
                   !.last_key = "enter",
                   !.new_image = IF populated.panicked THEN "None"
                                 ELSE MonochromaticEdit_try_process(populated, opens)]
    /\ UNCHANGED <<arg, parsed, input>>

\* ------------------------------------------------------------------------
\* Palette condensation (condense_color_pallet, called by
\* MonochromaticEdit::try_process; its text is not in the sources and is
\* taken from the specification, section 4.3 and section 7)
\* ------------------------------------------------------------------------
\* pallet.rs remove_duplicates_ordered: the first occurrence of each item
\* stays (the list is split in two to keep the evaluation shallow)
RECURSIVE remove_duplicates_ordered(_)
remove_duplicates_ordered(data) ==
    IF Len(data) <= 1 THEN data
    ELSE LET half == Len(data) \div 2
             front == remove_duplicates_ordered(SubSeq(data, 1, half))
             back == remove_duplicates_ordered(SubSeq(data, half + 1, Len(data)))
             seen == {front[k] : k \in 1..Len(front)}
         IN  front \o SelectSeq(back, LAMBDA item : item \notin seen)

\* the number of quantization passes after which the call is fatal
MaxPasses == 50

\* the centre of the bucket of a channel value
bucket_center(value, bucket_width) ==
    (value \div bucket_width) * bucket_width + bucket_width \div 2

remap(pal, bucket_width) ==
    [k \in 1..Len(pal) |-> <<bucket_center(pal[k][1], bucket_width),
                             bucket_center(pal[k][2], bucket_width),
                             bucket_center(pal[k][3], bucket_width)>>]

\* mutant: a palette one colour over the ceiling is taken to fit
fits_one_over(pal, ceiling) == Len(pal) <= ceiling + 1

fits(pal, ceiling) == Len(pal) <= ceiling

\* steps 3 to 5: one pass per bucket width until the palette fits, fatal
\* after MaxPasses passes
RECURSIVE condense_passes(_, _, _, _)
condense_passes(pal, ceiling, bucket_width, passes) ==
    IF fits(pal, ceiling) THEN [status |-> "ok", palette |-> pal, passes |-> passes]
    ELSE IF passes >= MaxPasses
         THEN [status |-> "fatal", palette |-> pal, passes |-> passes]
         ELSE condense_passes(remove_duplicates_ordered(remap(pal, bucket_width)),
                              ceiling, bucket_width + 1, passes + 1)

\* steps 1 and 2, then the passes
condense_color_pallet(pal, ceiling, first_width) ==
    condense_passes(remove_duplicates_ordered(pal), ceiling, first_width, 0)

CondColors == {<<0, 0, 0>>, <<0, 0, 1>>, <<0, 0, 4>>, <<255, 255, 255>>}

NotCondensed == [status |-> "none", palette |-> <<>>, passes |-> 0]

CondIdle ==
    cond = [input |-> <<>>, ceiling |-> 1, first_width |-> 1, done |-> TRUE,
            result |-> NotCondensed]

\* a call on any palette, any ceiling >= 1 and any small first bucket width
CondInit ==
    /\ \E pal \in SeqsUpTo(CondColors, MaxCondPallet) :
       \E ceiling \in 1..MaxCeiling :
       \E first_width \in 1..MaxFirstWidth :
           cond = [input |-> pal, ceiling |-> ceiling, first_width |-> first_width,
                   done |-> FALSE, result |-> NotCondensed]

Condense ==
    /\ ~cond.done
    /\ cond' = [cond EXCEPT !.done = TRUE,
                            !.result = condense_color_pallet(cond.input, cond.ceiling,
                                                             cond.first_width)]

\* ------------------------------------------------------------------------
\* SpectrumBuilder (pallet.rs get_colors_between, get_1d_spectrum)
\* ------------------------------------------------------------------------
\* mutant: half the steps, too few to visit every 8-bit value
interpolation_steps_few == 442 \div 2

interpolation_steps == 442

\* The f64 sum c1 + k * ((c2 - c1) / 442), built by k additions, differs from
\* the real value by rounding errors far below 1/884, so .round() of the sum
\* is the rounding of the real value unless that value is exactly halfway
\* between two integers; there the direction depends on the accumulated
\* error and is left to tie_oracle.
round_up_at(oracle, k) == oracle[((k \div 2) % Len(oracle)) + 1]

\* the channel pushed at step k of the loop of get_colors_between
channel_at(c1, c2, k, oracle) ==
    LET scaled == interpolation_steps * c1 + k * (c2 - c1)
        whole == scaled \div interpolation_steps
        rest == scaled % interpolation_steps
    IN  IF 2 * rest > interpolation_steps THEN whole + 1
        ELSE IF 2 * rest = interpolation_steps /\ round_up_at(oracle, k) THEN whole + 1
        ELSE whole

\* `as u8`: a saturating cast
as_u8(n) == IF n < 0 THEN 0 ELSE IF n > 255 THEN 255 ELSE n

\* the colours pushed by `for _ in 0..=interpolation_steps()`
interpolated(color_1, color_2, oracle) ==
    [k \in 1..(interpolation_steps + 1) |->
        <<as_u8(channel_at(color_1[1], color_2[1], k - 1, oracle)),
          as_u8(channel_at(color_1[2], color_2[2], k - 1, oracle)),
          as_u8(channel_at(color_1[3], color_2[3], k - 1, oracle))>>]

get_colors_between(color_1, color_2, oracle) ==
    remove_duplicates_ordered(interpolated(color_1, color_2, oracle))

\* mutant: the two halves are joined without removing duplicates
get_1d_spectrum_joined(seed, oracle) ==
    get_colors_between(white, seed, oracle) \o get_colors_between(seed, black, oracle)

get_1d_spectrum(seed, oracle) ==
    remove_duplicates_ordered(get_colors_between(white, seed, oracle)
                              \o get_colors_between(seed, black, oracle))

\* sample seed colours: the corners white and black, a colour 221 below
\* white in one channel (every other step lands on a half), colours an odd
\* and an even distance from the corners
SeedColors == {white, black, <<34, 255, 128>>, <<255, 0, 0>>, <<242, 13, 100>>, <<1, 2, 3>>}

TieOracles == UNION {[1..n -> BOOLEAN] : n \in 1..MaxTieBits}

NoSpectrum == [op |-> "none", colors |-> <<>>]

SpectrumIdle ==
    /\ seeds = <<black, black>>
    /\ tie_oracle = <<TRUE>>
    /\ spectrum = [op |-> "idle", colors |-> <<>>]

SpectrumInit ==
    /\ seeds \in SeedColors \X SeedColors
    /\ tie_oracle \in TieOracles
    /\ spectrum = NoSpectrum

\* a call of get_colors_between on the two colours
ColorsBetween ==
    /\ spectrum.op = "none"
    /\ spectrum' = [op |-> "between",
                    colors |-> get_colors_between(seeds[1], seeds[2], tie_oracle)]
    /\ UNCHANGED <<seeds, tie_oracle>>

\* a call of get_1d_spectrum on the first colour
LineSpectrum ==
    /\ spectrum.op = "none"
    /\ spectrum' = [op |-> "line", colors |-> get_1d_spectrum(seeds[1], tie_oracle)]
    /\ UNCHANGED <<seeds, tie_oracle>>

\* ------------------------------------------------------------------------
\* AccentDetector (pallet.rs get_accent_color, Region)
\* ------------------------------------------------------------------------
\* color_region_differentiation() = 8.0 and accent_color_multiplier() = 2.0
color_region_differentiation == 8
accent_color_multiplier == 2

\* (sum / count).round() as u8; the f32 sum of the channel values is exact
round_div(sum, count) == (2 * sum + count) \div (2 * count)

RECURSIVE channel_sum(_, _)
channel_sum(pixels, ch) ==
    IF pixels = <<>> THEN 0 ELSE Head(pixels)[ch] + channel_sum(Tail(pixels), ch)

\* get_average_color_from_pixels; get_average_color_from_image computes the
\* same value from the image's pixels
get_average_color_from_pixels(pixels) ==
    <<round_div(channel_sum(pixels, 1), Len(pixels)),
      round_div(channel_sum(pixels, 2), Len(pixels)),
      round_div(channel_sum(pixels, 3), Len(pixels))>>

\* `distance > limit` for a distance of get_distance and a whole limit
farther_than(distance, limit) ==
    FracLess([num |-> BigOfInt(limit * limit * 1000000), den |-> 1], distance)

is_accent_color(c) ==
    LET brightness == (WeightR * c[1] + WeightG * c[2] + WeightB * c[3]) \div 1000
        perceived_greyscale_color == <<brightness, brightness, brightness>>
    IN  farther_than(get_distance(c, perceived_greyscale_color, None),
                     color_region_differentiation * accent_color_multiplier)

is_different_color_region(color_1, color_2) ==
    farther_than(get_distance(color_1, color_2, None), color_region_differentiation)

\* Region::new, Region::add_color, Region::add_colors
Region_new == [colors |-> <<>>, average_color |-> black]
add_colors_replace(region, colors) ==
    [colors |-> colors, average_color |-> get_average_color_from_pixels(colors)]
add_colors(region, colors) ==
    [colors |-> region.colors \o colors,
     average_color |-> get_average_color_from_pixels(region.colors \o colors)]
add_color(region, c) == add_colors(region, <<c>>)

\* the index of the first region whose average colour is not in a different
\* colour region than c, 0 if there is none
RECURSIVE first_fit(_, _, _)
first_fit(regions, c, i) ==
    IF i > Len(regions) THEN 0
    ELSE IF ~is_different_color_region(regions[i].average_color, c) THEN i
    ELSE first_fit(regions, c, i + 1)

\* the body of the for_each over the accent pixels of a chunk
grow(accent_regions, pixel) ==
    LET i == first_fit(accent_regions, pixel, 1) IN
    IF i = 0 THEN Append(accent_regions, add_color(Region_new, pixel))
    ELSE [accent_regions EXCEPT ![i] = add_color(@, pixel)]

\* the body of the loop over the overlapping regions
merge(merged_accent_regions, overlapping_region) ==
    LET i == first_fit(merged_accent_regions, overlapping_region.average_color, 1) IN
    IF i = 0 THEN Append(merged_accent_regions, overlapping_region)
    ELSE [merged_accent_regions EXCEPT ![i] = add_colors(@, overlapping_region.colors)]

\* the square of Region::accent_score, times 10^8: (len * distance / 10)^2
accent_score(region, average_image_color) ==
    LET distance == get_distance(region.average_color, average_image_color, None) IN
    [num |-> BigScale(Len(region.colors) * Len(region.colors), distance.num), den |-> 1]

\* the loop that finds the region of the greatest score
RECURSIVE greatest_scan(_, _, _, _, _)
greatest_scan(regions, average_image_color, i, greatest_score, greatest_index) ==
    IF i > Len(regions) THEN greatest_index
    ELSE LET score == accent_score(regions[i], average_image_color) IN
         IF FracLess(greatest_score, score)
         THEN greatest_scan(regions, average_image_color, i + 1, score, i)
         ELSE greatest_scan(regions, average_image_color, i + 1, greatest_score,
                            greatest_index)

\* slice::chunks(size) for size > 0: pieces of `size` items, the last one
\* shorter when the length is not a multiple of size
slice_chunks(list, size) ==
    [c \in 1..((Len(list) + size - 1) \div size) |->
        SubSeq(list, (c - 1) * size + 1,
               IF c * size < Len(list) THEN c * size ELSE Len(list))]

\* flat_map(..).collect(): the lists joined in their order
RECURSIVE concat(_)
concat(lists) ==
    IF lists = <<>> THEN <<>>
    ELSE IF Len(lists) = 1 THEN lists[1]
    ELSE LET half == Len(lists) \div 2
         IN  concat(SubSeq(lists, 1, half)) \o concat(SubSeq(lists, half + 1, Len(lists)))

\* sample pixels: two greys, two reds of one colour region, a blue
AccentPixels ==
    {<<100, 100, 100>>, <<50, 50, 50>>, <<255, 0, 0>>, <<250, 0, 0>>, <<0, 0, 255>>}

AccentCall(pixels, chunk_count) ==
    [pixels |-> pixels, chunk_count |-> chunk_count, phase |-> "called",
     average_image_color |-> black, pixels_per_chunk |-> 0, chunks |-> <<>>,
     pos |-> <<>>, accent_regions |-> <<>>,
     overlapping_accent_regions |-> <<>>, merge_pos |-> 0,
     merged_accent_regions |-> <<>>, result |-> black]

AccentIdle == accent = [AccentCall(<<black>>, 1) EXCEPT !.phase = "idle"]

\* a call on any image of at least one pixel with any number of rayon threads
AccentInit ==
    \E pixels \in SeqsUpTo(AccentPixels, MaxPixels) \ {<<>>} :
    \E chunk_count \in 1..MaxWorkers :
        accent = AccentCall(pixels, chunk_count)

\* get_accent_color up to the parallel iterator; chunks(0) panics
AccentStart ==
    /\ accent.phase = "called"
    /\ LET pixel_count == Len(accent.pixels)
           pixels_per_chunk == pixel_count \div accent.chunk_count
       IN  IF pixels_per_chunk = 0
           THEN accent' = [accent EXCEPT
                    !.average_image_color = get_average_color_from_pixels(accent.pixels),
                    !.phase = "panic"]
           ELSE LET chunks == slice_chunks(accent.pixels, pixels_per_chunk) IN
                accent' = [accent EXCEPT
                    !.average_image_color = get_average_color_from_pixels(accent.pixels),
                    !.pixels_per_chunk = pixels_per_chunk,
                    !.chunks = chunks,
                    !.pos = [c \in 1..Len(chunks) |-> 0],
                    !.accent_regions = [c \in 1..Len(chunks) |-> <<>>],
                    !.phase = "growing"]

AccentGrowShared(c) ==
    /\ accent.phase = "growing"
    /\ accent.pos[c] < Len(accent.chunks[c])
    /\ LET pixel == accent.chunks[c][accent.pos[c] + 1]
           grown == [accent EXCEPT
               !.accent_regions[1] = IF is_accent_color(pixel) THEN grow(@, pixel) ELSE @]
       IN  accent' = [grown EXCEPT !.pos[c] = @ + 1]

\* the closure of chunk c takes its next pixel
AccentGrow(c) ==
    /\ accent.phase = "growing"
    /\ accent.pos[c] < Len(accent.chunks[c])
    /\ LET pixel == accent.chunks[c][accent.pos[c] + 1] IN
       accent' = [accent EXCEPT
           !.pos[c] = @ + 1,
           !.accent_regions[c] = IF is_accent_color(pixel) THEN grow(@, pixel) ELSE @]

\* flat_map(..).collect(): the regions of the chunks in the order of the chunks
AccentCollect ==
    /\ accent.phase = "growing"
    /\ \A c \in 1..Len(accent.chunks) : accent.pos[c] = Len(accent.chunks[c])
    /\ accent' = [accent EXCEPT
           !.overlapping_accent_regions = concat(accent.accent_regions),
           !.phase = "merging"]

\* one iteration of the loop over the overlapping regions
AccentMerge ==
    /\ accent.phase = "merging"
    /\ accent.merge_pos < Len(accent.overlapping_accent_regions)
    /\ accent' = [accent EXCEPT
           !.merge_pos = @ + 1,
           !.merged_accent_regions =
               merge(@, accent.overlapping_accent_regions[accent.merge_pos + 1])]

\* the fallback to the average colour, or the region of the greatest score
AccentSelect ==
    /\ accent.phase = "merging"
    /\ accent.merge_pos = Len(accent.overlapping_accent_regions)
    /\ accent' = [accent EXCEPT
           !.phase = "done",
           !.result =
               IF accent.merged_accent_regions = <<>> THEN accent.average_image_color
               ELSE accent.merged_accent_regions[
                        greatest_scan(accent.merged_accent_regions,
                                      accent.average_image_color, 1,
                                      [num |-> BigOfInt(0), den |-> 1], 1)].average_color]

\* ------------------------------------------------------------------------
\* SpectrumBuilder for two and three seeds (pallet.rs get_2d_spectrum,
\* get_3d_spectrum, get_inside_colors_at_blue_value)
\* ------------------------------------------------------------------------
\* remove_duplicates_unordered collects a HashSet and iterates it: the order
\* of the result is unspecified. Two of the possible orders are modelled,
\* the order of first occurrence and its reverse.
remove_duplicates_unordered(data, reversed) ==
    LET first == remove_duplicates_ordered(data) IN
    IF reversed THEN [k \in 1..Len(first) |-> first[Len(first) + 1 - k]] ELSE first

get_2d_spectrum(color_1, color_2, oracle, reversed) ==
    LET spectrum_1 == get_1d_spectrum(color_1, oracle)
        spectrum_2 == get_1d_spectrum(color_2, oracle)
        len_1 == Len(spectrum_1)
        len_2 == Len(spectrum_2)
        spectrum_steps == IF len_1 < len_2 THEN len_1 ELSE len_2
        colors_between ==
            [k \in 1..spectrum_steps |->
                get_colors_between(spectrum_1[k], spectrum_2[k], oracle)
                \o get_colors_between(spectrum_1[len_1 + 1 - k],
                                      spectrum_2[len_2 + 1 - k], oracle)]
    IN  remove_duplicates_unordered(concat(colors_between), reversed)

\* u8 arithmetic: with overflow checks (a debug build) an operation whose
\* result is outside 0..255 panics, without them (a release build) it wraps
u8(n) == n % 256

\* the operations of
\*   (r - a[0]) * (b[1] - a[1]) - (g - a[1]) * (b[0] - a[0])
\* in the order of their evaluation, unwrapped, each on the wrapped results
\* of the operations before it
cross_operations(r, g, a, b) ==
    LET d1 == r - a[1]
        d2 == b[2] - a[2]
        p1 == u8(d1) * u8(d2)
        d3 == g - a[2]
        d4 == b[1] - a[1]
        p2 == u8(d3) * u8(d4)
    IN  <<d1, d2, p1, d3, d4, p2, u8(p1) - u8(p2)>>

cross_overflows(r, g, a, b) ==
    \E k \in 1..7 : cross_operations(r, g, a, b)[k] \notin 0..255

\* the value of cross in a build without overflow checks
cross(r, g, a, b) == u8(cross_operations(r, g, a, b)[7])

Min(S) == CHOOSE x \in S : \A y \in S : x <= y
Max(S) == CHOOSE x \in S : \A y \in S : x >= y

\* get_inside_colors_at_blue_value: [panic, colors]; checks says whether the
\* build has overflow checks
get_inside_colors_at_blue_value(all_edge_colors, blue_value, checks) ==
    LET edge_colors == SelectSeq(all_edge_colors, LAMBDA c : c[3] = blue_value)
        n == Len(edge_colors)
    IN  IF n = 0 THEN [panic |-> FALSE, colors |-> <<>>]
        ELSE
        LET lowest_r == Min({edge_colors[i][1] : i \in 1..n})
            lowest_g == Min({edge_colors[i][2] : i \in 1..n})
            highest_r == Max({edge_colors[i][1] : i \in 1..n})
            highest_g == Max({edge_colors[i][2] : i \in 1..n})
            rows == highest_r - lowest_r + 1
            cols == highest_g - lowest_g + 1
            next(i) == edge_colors[(i % n) + 1]
            \* the first edge at which the loop over the edges breaks, n + 1
            \* if it runs to the end
            stop(r, g) ==
                Min({i \in 1..n : cross(r, g, edge_colors[i], next(i)) < 0} \cup {n + 1})
            \* a checked operation that is evaluated and overflows
            panics(r, g) ==
                \E i \in 1..n : i <= stop(r, g)
                                /\ cross_overflows(r, g, edge_colors[i], next(i))
            box == [k \in 1..(rows * cols) |->
                       <<lowest_r + (k - 1) \div cols, lowest_g + ((k - 1) % cols),
                         blue_value>>]
        IN  IF checks /\ \E k \in 1..(rows * cols) : panics(box[k][1], box[k][2])
            THEN [panic |-> TRUE, colors |-> <<>>]
            ELSE [panic |-> FALSE,
                  colors |-> SelectSeq(box, LAMBDA c : stop(c[1], c[2]) = n + 1)]

\* seed triples near the black corner: their line spectra meet in few colours
\* of every blue value
SeedTriples ==
    {<<(<<1, 0, 0>>), (<<0, 1, 0>>), black>>}

VolumeCall(triple, oracle) ==
    [seeds |-> triple, oracle |-> oracle, checks |-> FALSE, phase |-> "called",
     b |-> 0, planes |-> <<>>, spectrum |-> <<>>]

VolumeIdle == volume = [VolumeCall(<<black, black, black>>, <<TRUE>>) EXCEPT !.phase = "idle"]

VolumeInit ==
    \E triple \in SeedTriples : \E up \in BOOLEAN :
        volume = VolumeCall(triple, <<up>>)

\* get_3d_spectrum up to the loop over the blue values, in a build with or
\* without overflow checks
VolumeStart ==
    /\ volume.phase = "called"
    /\ LET color_1 == volume.seeds[1]
           color_2 == volume.seeds[2]
           color_3 == volume.seeds[3]
           built(reversed) ==
               remove_duplicates_ordered(
                   get_2d_spectrum(color_1, color_2, volume.oracle, reversed)
                   \o get_2d_spectrum(color_2, color_3, volume.oracle, reversed)
                   \o get_2d_spectrum(color_3, color_1, volume.oracle, reversed))
       IN  \E reversed \in BOOLEAN :
               LET start == built(reversed) IN
               \E checks \in BOOLEAN :
                   volume' = [volume EXCEPT !.phase = "filling", !.checks = checks,
                                            !.planes = start, !.spectrum = start]

\* one iteration of `for b in 0..=255`
VolumeFill ==
    /\ volume.phase = "filling"
    /\ volume.b <= 255
    /\ LET inside_colors ==
               get_inside_colors_at_blue_value(volume.spectrum, volume.b, volume.checks)
       IN  IF inside_colors.panic
           THEN volume' = [volume EXCEPT !.phase = "panic"]
           ELSE volume' = [volume EXCEPT !.b = @ + 1,
                                         !.spectrum = @ \o inside_colors.colors]

\* the last removal of duplicates and the return
VolumeFinish ==
    /\ volume.phase = "filling"
    /\ volume.b = 256
    /\ volume' = [volume EXCEPT !.phase = "done",
                                !.spectrum = remove_duplicates_ordered(@)]

\* ------------------------------------------------------------------------
\* get_2d_spectrum called twice on the same seeds, and get_closest_color of
\* one pixel on each of the two results (pallet.rs)
\* ------------------------------------------------------------------------
\* seed pairs whose plane spectra are small: a colour next to mid grey whose
\* line spectrum is more than twice as long as the line of black, two
\* colours next to black, and the two corners
SeedPairs ==
    {<<black, (<<126, 122, 130>>)>>, <<(<<0, 0, 2>>), (<<2, 2, 0>>)>>, <<black, white>>}

\* pixels to search: a colour next to a seed, and a corner
PlanePixels == {<<2, 2, 1>>, black}

PlaneCall(pair, oracle) ==
    [seeds |-> pair, oracle |-> oracle, phase |-> "called",
     spectrum_1 |-> <<>>, spectrum_2 |-> <<>>, spectrum_steps |-> 0, i |-> 0,
     collected |-> <<>>, built |-> <<(<<>>), (<<>>)>>, pixel |-> black, k |-> 0,
     closest_color |-> <<black, black>>,
     closest_distance |-> <<get_distance(black, black, None),
                             get_distance(black, black, None)>>]

PlaneIdle == plane = [PlaneCall(<<black, black>>, <<TRUE>>) EXCEPT !.phase = "idle"]

PlaneInit ==
    \E pair \in SeedPairs : \E up \in BOOLEAN : plane = PlaneCall(pair, <<up>>)

\* get_2d_spectrum up to the parallel iterator
PlaneStart ==
    /\ plane.phase = "called"
    /\ LET spectrum_1 == get_1d_spectrum(plane.seeds[1], plane.oracle)
           spectrum_2 == get_1d_spectrum(plane.seeds[2], plane.oracle)
       IN  plane' = [plane EXCEPT
               !.phase = "collecting",
               !.spectrum_1 = spectrum_1,
               !.spectrum_2 = spectrum_2,
               !.spectrum_steps = IF Len(spectrum_1) < Len(spectrum_2)
                                  THEN Len(spectrum_1) ELSE Len(spectrum_2)]

\* the closure of index i; collect() joins the lists in the order of i
PlaneTask ==
    /\ plane.phase = "collecting"
    /\ plane.i < plane.spectrum_steps
    /\ LET len_1 == Len(plane.spectrum_1)
           len_2 == Len(plane.spectrum_2)
           colors_between ==
               get_colors_between(plane.spectrum_1[plane.i + 1],
                                  plane.spectrum_2[plane.i + 1], plane.oracle)
               \o get_colors_between(plane.spectrum_1[len_1 - plane.i],
                                     plane.spectrum_2[len_2 - plane.i], plane.oracle)
       IN  plane' = [plane EXCEPT !.i = @ + 1, !.collected = @ \o colors_between]

\* remove_duplicates_unordered and the return, for each of the two calls:
\* both collected the same list, each HashSet iterates in its own order
PlaneFinish ==
    /\ plane.phase = "collecting"
    /\ plane.i = plane.spectrum_steps
    /\ \E reversed_1 \in BOOLEAN : \E reversed_2 \in BOOLEAN :
           plane' = [plane EXCEPT
               !.phase = "built",
               !.collected = <<>>,
               !.built = <<remove_duplicates_unordered(plane.collected, reversed_1),
                           remove_duplicates_unordered(plane.collected, reversed_2)>>]

\* get_closest_color up to its loop, on each of the two palettes
PlaneSearchStart ==
    /\ plane.phase = "built"
    /\ \E pixel \in PlanePixels :
           IF plane.built[1] = <<>>
           THEN plane' = [plane EXCEPT !.phase = "palletized", !.pixel = pixel,
                                       !.closest_color = <<pixel, pixel>>]
           ELSE plane' = [plane EXCEPT
                    !.phase = "searching",
                    !.pixel = pixel,
                    !.k = 1,
                    !.closest_color = <<plane.built[1][1], plane.built[2][1]>>,
                    !.closest_distance =
                        <<get_distance(pixel, plane.built[1][1], None),
                          get_distance(pixel, plane.built[2][1], None)>>]

\* one iteration of `for &palette_color in &pallet[1..]` of each search, and
\* the return after the last one
PlaneSearchStep ==
    /\ plane.phase = "searching"
    /\ IF plane.k = Len(plane.built[1])
       THEN plane' = [plane EXCEPT !.phase = "palletized"]
       ELSE LET palette_color(run) == plane.built[run][plane.k + 1]
                distance(run) == get_distance(plane.pixel, palette_color(run), None)
                closer(run) == FracLess(distance(run), plane.closest_distance[run])
            IN  plane' = [plane EXCEPT
                    !.k = @ + 1,
                    !.closest_color =
                        [run \in 1..2 |-> IF closer(run) THEN palette_color(run)
                                          ELSE plane.closest_color[run]],
                    !.closest_distance =
                        [run \in 1..2 |-> IF closer(run) THEN distance(run)
                                          ELSE plane.closest_distance[run]]]

\* ------------------------------------------------------------------------
\* EditProcessor::try_process of the sixteen edits (processor.rs)
\* ------------------------------------------------------------------------
\* A pallet is followed through try_process by its provenance: the builder
\* that returned it, where its seed colours came from, and whether
\* condense_color_pallet returned it.
SeedModes ==
    {"Monochromatic", "AutomaticMonochromatic", "AutomaticMonochromaticWithAccent",
     "Bichromatic", "BichromaticWithAccent", "Trichromatic"}
ThemedModes ==
    {"VolcanicCrater", "RedRocks", "DeepestAfrica", "ArcticWilderness", "Iceland",
     "EnglishOaks", "WheatField", "SouthAmericanJungle", "EuropeanIslands",
     "ColorfulIslands"}
Processors == SeedModes \cup ThemedModes

NoPallet == [built_by |-> "none", seeds |-> {}, condensed |-> FALSE]

get_line_spectrum(seed) ==
    [built_by |-> "get_line_spectrum", seeds |-> {seed}, condensed |-> FALSE]
get_line_spectrums(theme) ==
    [built_by |-> "get_line_spectrums", seeds |-> {theme}, condensed |-> FALSE]
get_plane_spectrum(line_1, line_2) ==
    [built_by |-> "get_plane_spectrum", seeds |-> line_1.seeds \cup line_2.seeds,
     condensed |-> FALSE]
get_web_spectrum(lines) ==
    [built_by |-> "get_web_spectrum",
     seeds |-> UNION {lines[k].seeds : k \in 1..Len(lines)}, condensed |-> FALSE]
condensed_pallet(pal) == [pal EXCEPT !.condensed = TRUE]

\* compute.rs process_evenly and process_biased: the pallets handed to
\* Gpu::palletize_evenly / Gpu::palletize_biased
process_evenly(pal) ==
    [fn |-> "process_evenly", biased_pallet |-> NoPallet, standard_pallet |-> pal]
process_biased(biased, standard) ==
    [fn |-> "process_biased", biased_pallet |-> biased,
     standard_pallet |-> standard]
NoCall == [fn |-> "none", biased_pallet |-> NoPallet, standard_pallet |-> NoPallet]

\* the body of try_process once the source image is open
Monochromatic_process ==
    LET mode_spectrum == condensed_pallet(get_line_spectrum("base_color_rgb"))
    IN  process_evenly(mode_spectrum)
AutomaticMonochromatic_process ==
    LET mode_spectrum == condensed_pallet(get_line_spectrum("get_average_color_from_image"))
    IN  process_evenly(mode_spectrum)
AutomaticMonochromaticWithAccent_process ==
    LET base_spectrum ==
            condensed_pallet(get_line_spectrum("get_average_color_from_image"))
        accent_spectrum == condensed_pallet(get_line_spectrum("get_accent_color"))
    IN  process_biased(base_spectrum, accent_spectrum)
Bichromatic_process ==
    LET line_spectrum_1 == get_line_spectrum("base_color_1_rgb")
        line_spectrum_2 == get_line_spectrum("base_color_2_rgb")
        mode_spectrum == condensed_pallet(get_plane_spectrum(line_spectrum_1, line_spectrum_2))
    IN  process_evenly(mode_spectrum)
BichromaticWithAccent_process ==
    LET base_spectrum ==
            condensed_pallet(get_plane_spectrum(get_line_spectrum("base_color_1_rgb"),
                                                get_line_spectrum("base_color_2_rgb")))
        accent_spectrum == condensed_pallet(get_line_spectrum("get_accent_color"))
    IN  process_biased(base_spectrum, accent_spectrum)
Trichromatic_process ==
    LET line_spectrum_1 == get_line_spectrum("base_color_1_rgb")
        line_spectrum_2 == get_line_spectrum("base_color_2_rgb")
        line_spectrum_3 == get_line_spectrum("base_color_3_rgb")
        mode_spectrum == condensed_pallet(
            get_web_spectrum(<<line_spectrum_1, line_spectrum_2, line_spectrum_3>>))
    IN  process_evenly(mode_spectrum)
Themed_process(theme) ==
    LET web_spectrum == get_web_spectrum(<<get_line_spectrums(theme)>>)
    IN  process_evenly(web_spectrum)

try_process(self, opens) ==
    IF ~self.is_ready THEN [result |-> "None", call |-> NoCall]
    ELSE IF ~opens THEN [result |-> "None", call |-> NoCall]
    ELSE [result |-> "Some",
          call |-> CASE self.mode = "Monochromatic" -> Monochromatic_process
                     [] self.mode = "AutomaticMonochromatic" ->
                            AutomaticMonochromatic_process
                     [] self.mode = "AutomaticMonochromaticWithAccent" ->
                            AutomaticMonochromaticWithAccent_process
                     [] self.mode = "Bichromatic" -> Bichromatic_process
                     [] self.mode = "BichromaticWithAccent" ->
                            BichromaticWithAccent_process
                     [] self.mode = "Trichromatic" -> Trichromatic_process
                     [] OTHER -> Themed_process(self.mode)]

ProcessIdle ==
    process = [edit |-> [mode |-> "Monochromatic", is_ready |-> FALSE],
               opens |-> FALSE, phase |-> "idle", result |-> "None", call |-> NoCall]

\* any edit, populated or not, whose source image opens or not
ProcessInit ==
    \E mode \in Processors : \E is_ready \in BOOLEAN : \E opens \in BOOLEAN :
        process = [edit |-> [mode |-> mode, is_ready |-> is_ready],
                   opens |-> opens, phase |-> "editing", result |-> "None",
                   call |-> NoCall]

TryProcess ==
    /\ process.phase = "editing"
    /\ LET outcome == try_process(process.edit, process.opens) IN
       process' = [process EXCEPT !.phase = "returned",
                                  !.result = outcome.result,
                                  !.call = outcome.call]

\* ------------------------------------------------------------------------
\* App::run (app.rs): the pages and the key events
\* ------------------------------------------------------------------------
number_of_processors == 16

\* usize values near 0 and near usize::MAX: a negative number -n stands for
\* usize::MAX + 1 - n, the value a subtraction below 0 wraps to in a build
\* without overflow checks
usize_ge(a, b) == IF (a < 0) = (b < 0) THEN a >= b ELSE a < 0

Keys == {"Right", "Left", "Enter", "Esc", "q", "r", "f"}

\* what try_process and the saving of its image come to on the Enter key
Outcomes == {"None", "Saved", "NotSaved"}

\* App::new followed by update_selected_image_path; paths is the length of
\* source_image_paths, a selected path is its index; checks says whether the
\* build has overflow checks; was_reset is a history variable
App_new(paths, checks) ==
    [current_page                 |-> "Launching",
     paths                        |-> paths,
     current_image_path_selection |-> 0,
     selected_image_path          |-> IF paths = 0 THEN "None" ELSE "Some",
     selected_index               |-> 0,
     current_processor_selection  |-> 0,
     selected_processor           |-> "None",
     checks                       |-> checks,
     ended                        |-> "running",
     was_reset                    |-> FALSE]

panic(a) == [a EXCEPT !.ended = "panic"]

\* out of range, the index panics
update_selected_image_path(a) ==
    IF a.paths = 0 THEN [a EXCEPT !.selected_image_path = "None"]
    ELSE IF a.current_image_path_selection \notin 0..(a.paths - 1) THEN panic(a)
    ELSE [a EXCEPT !.selected_image_path = "Some",
                   !.selected_index = a.current_image_path_selection]

select_next_source_image_path(a) ==
    IF a.paths = 0 /\ a.checks THEN panic(a)
    ELSE IF usize_ge(a.current_image_path_selection, a.paths - 1)
         THEN [a EXCEPT !.current_image_path_selection = 0]
         ELSE [a EXCEPT !.current_image_path_selection = @ + 1]

select_previous_source_image_path(a) ==
    IF a.current_image_path_selection = 0
    THEN IF a.paths = 0 /\ a.checks THEN panic(a)
         ELSE [a EXCEPT !.current_image_path_selection = a.paths - 1]
    ELSE [a EXCEPT !.current_image_path_selection = @ - 1]

select_next_processor(a) ==
    update_selected_image_path(
        IF a.current_processor_selection >= number_of_processors - 1
        THEN [a EXCEPT !.current_processor_selection = 0]
        ELSE [a EXCEPT !.current_processor_selection = @ + 1])

select_previous_processor(a) ==
    update_selected_image_path(
        IF a.current_processor_selection = 0
        THEN [a EXCEPT !.current_processor_selection = number_of_processors - 1]
        ELSE [a EXCEPT !.current_processor_selection = @ - 1])

\* mutant: reset leaves the page as it is
reset_keeps_page(a) ==
    [a EXCEPT !.current_image_path_selection = 0,
              !.selected_image_path = "None",
              !.current_processor_selection = 0,
              !.selected_processor = "None",
              !.was_reset = TRUE]

reset(a) ==
    [a EXCEPT !.current_page = "SelectingImageSource",
              !.current_image_path_selection = 0,
              !.selected_image_path = "None",
              !.current_processor_selection = 0,
              !.selected_processor = "None",
              !.was_reset = TRUE]

\* selected_image_path.clone().unwrap()
unwrap_selected_image_path(a, then) ==
    IF a.selected_image_path = "None" THEN panic(a) ELSE then

on_SelectingImageSource(a, key) ==
    CASE key = "Right" -> select_next_source_image_path(a)
      [] key = "Left" -> select_previous_source_image_path(a)
      [] key = "Enter" ->
             IF a.paths = 0 THEN a
             ELSE LET updated == update_selected_image_path(a) IN
                  IF updated.ended = "panic" THEN updated
                  ELSE [updated EXCEPT !.current_page = "SelectingProcessingType"]
      [] key = "Esc" -> reset(a)
      [] key = "q" -> [a EXCEPT !.ended = "quit"]
      [] OTHER -> a

on_SelectingProcessingType(a, key) ==
    CASE key = "Right" -> select_next_processor(a)
      [] key = "Left" -> select_previous_processor(a)
      [] key = "Enter" ->
             unwrap_selected_image_path(a,
                 [a EXCEPT !.selected_processor = "Some",
                           !.current_page = "Preprocessing"])
      [] key = "Esc" -> reset(a)
      [] key = "q" -> [a EXCEPT !.ended = "quit"]
      [] OTHER -> a

on_Preprocessing(a, key, outcome) ==
    IF a.selected_processor = "None" THEN reset(a)
    ELSE CASE key = "Enter" ->
                  IF outcome = "None" THEN a
                  ELSE unwrap_selected_image_path(a,
                           IF outcome = "Saved" THEN [a EXCEPT !.current_page = "Finished"]
                           ELSE a)
           [] key = "Esc" -> reset(a)
           [] OTHER -> a

on_Finished(a, key) ==
    CASE key = "r" -> reset(a)
      [] key = "q" -> [a EXCEPT !.ended = "quit"]
      [] OTHER -> a

AppIdle == app = [App_new(0, TRUE) EXCEPT !.ended = "idle"]

AppInit ==
    \E paths \in 0..MaxPaths : \E checks \in BOOLEAN : app = App_new(paths, checks)

\* one turn of the loop of App::run on a key event
HandleKey ==
    /\ app.ended = "running"
    /\ \E key \in Keys : \E outcome \in Outcomes :
           /\ app.current_image_path_selection < MaxSelection
           /\ app.current_image_path_selection > -MaxSelection
           /\ app' = CASE app.current_page = "Launching" ->
                              [app EXCEPT !.current_page = "SelectingImageSource"]
                       [] app.current_page = "SelectingImageSource" ->
                              on_SelectingImageSource(app, key)
                       [] app.current_page = "SelectingProcessingType" ->
                              on_SelectingProcessingType(app, key)
                       [] app.current_page = "Preprocessing" ->
                              on_Preprocessing(app, key, outcome)
                       [] OTHER -> on_Finished(app, key)

\* ------------------------------------------------------------------------
\* Specifications
\* ------------------------------------------------------------------------
ImageIdle ==
    /\ source_image = [width |-> 1, height |-> 1, px |-> [p \in Coords(1, 1) |-> black]]
    /\ pallet = <<>>
    /\ pallet_biased = <<>>
    /\ strategy = "none"
    /\ cpu = [r \in Runs |-> CpuIdle(source_image)]
    /\ gpu = GpuIdle(source_image)

ImageInit ==
    /\ source_image \in Images
    /\ pallet \in SeqsUpTo(PalColors, MaxImagePallet)
    /\ strategy \in {"cpu", "gpu_evenly", "gpu_biased"}
    /\ pallet_biased \in IF strategy = "gpu_biased"
                         THEN SeqsUpTo(PalColors, MaxImageBiased) ELSE {<<>>}
    /\ cpu = [r \in Runs |-> CpuIdle(source_image)]
    /\ gpu = GpuIdle(source_image)

\* nearest-colour queries on one palette
InitSearch == SearchInit /\ ImageIdle /\ HexIdle /\ CondIdle /\ SpectrumIdle /\ AccentIdle /\ ProcessIdle /\ VolumeIdle /\ AppIdle /\ PlaneIdle
NextSearch ==
    \/ PushPallet /\ UNCHANGED <<imageVars, hexVars, condVars, spectrumVars, accentVars, processVars, volumeVars, appVars, planeVars>>
    \/ Search /\ UNCHANGED <<imageVars, hexVars, condVars, spectrumVars, accentVars, processVars, volumeVars, appVars, planeVars>>
SpecSearch == InitSearch /\ [][NextSearch]_vars

\* nearest-colour queries on a biased and a standard palette
NextBiased ==
    \/ PushBiasedPallet /\ UNCHANGED <<imageVars, hexVars, condVars, spectrumVars, accentVars, processVars, volumeVars, appVars, planeVars>>
    \/ PushStandardPallet /\ UNCHANGED <<imageVars, hexVars, condVars, spectrumVars, accentVars, processVars, volumeVars, appVars, planeVars>>
    \/ Search /\ UNCHANGED <<imageVars, hexVars, condVars, spectrumVars, accentVars, processVars, volumeVars, appVars, planeVars>>
SpecBiased == InitSearch /\ [][NextBiased]_vars

\* one palettization call of either strategy
CpuStartA == CpuStart(1) /\ UNCHANGED <<searchVars, hexVars, condVars, spectrumVars, accentVars, processVars, volumeVars, appVars, planeVars>>
CpuPixelA == (\E y \in 0..(source_image.height - 1) : CpuPixel(1, y)) /\ UNCHANGED <<searchVars, hexVars, condVars, spectrumVars, accentVars, processVars, volumeVars, appVars, planeVars>>
CpuFillA == CpuFill(1) /\ UNCHANGED <<searchVars, hexVars, condVars, spectrumVars, accentVars, processVars, volumeVars, appVars, planeVars>>
\* the second run starts when the first has returned
CpuStartB == cpu[1].phase = "done" /\ CpuStart(2) /\ UNCHANGED <<searchVars, hexVars, condVars, spectrumVars, accentVars, processVars, volumeVars, appVars, planeVars>>
CpuPixelB == (\E y \in 0..(source_image.height - 1) : CpuPixel(2, y)) /\ UNCHANGED <<searchVars, hexVars, condVars, spectrumVars, accentVars, processVars, volumeVars, appVars, planeVars>>
CpuFillB == CpuFill(2) /\ UNCHANGED <<searchVars, hexVars, condVars, spectrumVars, accentVars, processVars, volumeVars, appVars, planeVars>>

InitPalletize == SearchIdle /\ ImageInit /\ HexIdle /\ CondIdle /\ SpectrumIdle /\ AccentIdle /\ ProcessIdle /\ VolumeIdle /\ AppIdle /\ PlaneIdle
NextPalletize ==
    \/ CpuStartA
    \/ CpuPixelA
    \/ CpuFillA
    \/ GpuCollect /\ UNCHANGED <<searchVars, hexVars, condVars, spectrumVars, accentVars, processVars, volumeVars, appVars, planeVars>>
    \/ GpuDispatchEvenly /\ UNCHANGED <<searchVars, hexVars, condVars, spectrumVars, accentVars, processVars, volumeVars, appVars, planeVars>>
    \/ GpuDispatchBiased /\ UNCHANGED <<searchVars, hexVars, condVars, spectrumVars, accentVars, processVars, volumeVars, appVars, planeVars>>
    \/ GpuTranslateEvenly /\ UNCHANGED <<searchVars, hexVars, condVars, spectrumVars, accentVars, processVars, volumeVars, appVars, planeVars>>
    \/ GpuTranslateBiased /\ UNCHANGED <<searchVars, hexVars, condVars, spectrumVars, accentVars, processVars, volumeVars, appVars, planeVars>>
    \/ GpuFill /\ UNCHANGED <<searchVars, hexVars, condVars, spectrumVars, accentVars, processVars, volumeVars, appVars, planeVars>>
SpecPalletize == InitPalletize /\ [][NextPalletize]_vars

\* two runs of the CPU palletize on the same image and palette, one after
\* the other, each under its own schedule of the row closures
InitTwoRuns == InitPalletize /\ strategy = "cpu" /\ source_image \in CornerImages
NextTwoRuns ==
    \/ CpuStartA
    \/ CpuPixelA
    \/ CpuFillA
    \/ CpuStartB
    \/ CpuPixelB
    \/ CpuFillB
SpecTwoRuns == InitTwoRuns /\ [][NextTwoRuns]_vars

\* calls of is_hex and as_rgb on arbitrary texts
InitHex == SearchIdle /\ ImageIdle /\ HexInit /\ CondIdle /\ SpectrumIdle /\ AccentIdle /\ ProcessIdle /\ VolumeIdle /\ AppIdle /\ PlaneIdle
NextHex == Parse /\ UNCHANGED <<searchVars, imageVars, condVars, spectrumVars, accentVars, processVars, volumeVars, appVars, planeVars>>
SpecHex == InitHex /\ [][NextHex]_vars

\* the colour step of a MonochromaticEdit on the Preprocessing page
InitWizard == SearchIdle /\ ImageIdle /\ WizardInit /\ CondIdle /\ SpectrumIdle /\ AccentIdle /\ ProcessIdle /\ VolumeIdle /\ AppIdle /\ PlaneIdle
NextWizard ==
    \/ TypeChar /\ UNCHANGED <<searchVars, imageVars, condVars, spectrumVars, accentVars, processVars, volumeVars, appVars, planeVars>>
    \/ Backspace /\ UNCHANGED <<searchVars, imageVars, condVars, spectrumVars, accentVars, processVars, volumeVars, appVars, planeVars>>
    \/ Enter /\ UNCHANGED <<searchVars, imageVars, condVars, spectrumVars, accentVars, processVars, volumeVars, appVars, planeVars>>
SpecWizard == InitWizard /\ [][NextWizard]_vars

\* calls of the condenser
InitCondense == SearchIdle /\ ImageIdle /\ HexIdle /\ CondInit /\ SpectrumIdle /\ AccentIdle /\ ProcessIdle /\ VolumeIdle /\ AppIdle /\ PlaneIdle
NextCondense == Condense /\ UNCHANGED <<searchVars, imageVars, hexVars, spectrumVars, accentVars, processVars, volumeVars, appVars, planeVars>>
SpecCondense == InitCondense /\ [][NextCondense]_vars

\* calls of the spectrum builders
InitSpectrum == SearchIdle /\ ImageIdle /\ HexIdle /\ CondIdle /\ SpectrumInit /\ AccentIdle /\ ProcessIdle /\ VolumeIdle /\ AppIdle /\ PlaneIdle
NextSpectrum ==
    \/ ColorsBetween /\ UNCHANGED <<searchVars, imageVars, hexVars, condVars, accentVars, processVars, volumeVars, appVars, planeVars>>
    \/ LineSpectrum /\ UNCHANGED <<searchVars, imageVars, hexVars, condVars, accentVars, processVars, volumeVars, appVars, planeVars>>
SpecSpectrum == InitSpectrum /\ [][NextSpectrum]_vars

\* calls of get_accent_color
AccentGrowAny == \E c \in 1..Len(accent.chunks) : AccentGrow(c)
InitAccent == SearchIdle /\ ImageIdle /\ HexIdle /\ CondIdle /\ SpectrumIdle /\ AccentInit /\ ProcessIdle /\ VolumeIdle /\ AppIdle /\ PlaneIdle
NextAccent ==
    \/ AccentStart /\ UNCHANGED <<searchVars, imageVars, hexVars, condVars, spectrumVars, processVars, volumeVars, appVars, planeVars>>
    \/ AccentGrowAny /\ UNCHANGED <<searchVars, imageVars, hexVars, condVars, spectrumVars, processVars, volumeVars, appVars, planeVars>>
    \/ AccentCollect /\ UNCHANGED <<searchVars, imageVars, hexVars, condVars, spectrumVars, processVars, volumeVars, appVars, planeVars>>
    \/ AccentMerge /\ UNCHANGED <<searchVars, imageVars, hexVars, condVars, spectrumVars, processVars, volumeVars, appVars, planeVars>>
    \/ AccentSelect /\ UNCHANGED <<searchVars, imageVars, hexVars, condVars, spectrumVars, processVars, volumeVars, appVars, planeVars>>
SpecAccent == InitAccent /\ [][NextAccent]_vars

\* calls of try_process
InitProcess ==
    SearchIdle /\ ImageIdle /\ HexIdle /\ CondIdle /\ SpectrumIdle /\ AccentIdle
    /\ ProcessInit /\ VolumeIdle /\ AppIdle /\ PlaneIdle
NextProcess ==
    TryProcess
    /\ UNCHANGED <<searchVars, imageVars, hexVars, condVars, spectrumVars, accentVars,
                 volumeVars, appVars, planeVars>>
SpecProcess == InitProcess /\ [][NextProcess]_vars

\* calls of get_3d_spectrum
OtherThanVolume ==
    <<searchVars, imageVars, hexVars, condVars, spectrumVars, accentVars, processVars, appVars, planeVars>>
InitVolume ==
    SearchIdle /\ ImageIdle /\ HexIdle /\ CondIdle /\ SpectrumIdle /\ AccentIdle
    /\ ProcessIdle /\ VolumeInit /\ AppIdle /\ PlaneIdle
NextVolume ==
    \/ VolumeStart /\ UNCHANGED OtherThanVolume
    \/ VolumeFill /\ UNCHANGED OtherThanVolume
    \/ VolumeFinish /\ UNCHANGED OtherThanVolume
SpecVolume == InitVolume /\ [][NextVolume]_vars

\* key events handled by App::run
InitApp ==
    SearchIdle /\ ImageIdle /\ HexIdle /\ CondIdle /\ SpectrumIdle /\ AccentIdle
    /\ ProcessIdle /\ VolumeIdle /\ AppInit /\ PlaneIdle
NextApp ==
    HandleKey
    /\ UNCHANGED <<searchVars, imageVars, hexVars, condVars, spectrumVars, accentVars,
                   processVars, volumeVars, planeVars>>
SpecApp == InitApp /\ [][NextApp]_vars

\* two calls of get_2d_spectrum and the searches in their results
OtherThanPlane ==
    <<searchVars, imageVars, hexVars, condVars, spectrumVars, accentVars, processVars,
      volumeVars, appVars>>
InitPlane ==
    SearchIdle /\ ImageIdle /\ HexIdle /\ CondIdle /\ SpectrumIdle /\ AccentIdle
    /\ ProcessIdle /\ VolumeIdle /\ AppIdle /\ PlaneInit
NextPlane ==
    \/ PlaneStart /\ UNCHANGED OtherThanPlane
    \/ PlaneTask /\ UNCHANGED OtherThanPlane
    \/ PlaneFinish /\ UNCHANGED OtherThanPlane
    \/ PlaneSearchStart /\ UNCHANGED OtherThanPlane
    \/ PlaneSearchStep /\ UNCHANGED OtherThanPlane
SpecPlane == InitPlane /\ [][NextPlane]_vars

Spec == SpecPalletize

\* ------------------------------------------------------------------------
\* Properties of the nearest-colour searches
\* ------------------------------------------------------------------------
Equidistant(x, y) == ~FracLess(x, y) /\ ~FracLess(y, x)

\* index i holds a colour at minimal distance, and every earlier colour is
\* strictly farther
FirstMinimum(pal, i, D(_)) ==
    /\ \A j \in 1..Len(pal) : ~FracLess(D(pal[j]), D(pal[i]))
    /\ \A j \in 1..(i - 1) : FracLess(D(pal[i]), D(pal[j]))

\* C4: on a non-empty palette get_closest_color (pallet.rs, and tooling.rs
\* with its early exit on distance 0) returns the palette colour at the
\* lowest index among those at minimal distance from the query colour.
C4_ClosestIsFirstMinimum ==
    (closest.done /\ standard_pallet # <<>>) =>
        LET Dg(c) == get_distance(color, c, None)
            Dc(c) == get_distance_score(color, c)
        IN  /\ \E i \in 1..Len(standard_pallet) :
                   /\ FirstMinimum(standard_pallet, i, Dg)
                   /\ closest.gpu = standard_pallet[i]
            /\ \E i \in 1..Len(standard_pallet) :
                   /\ FirstMinimum(standard_pallet, i, Dc)
                   /\ closest.cpu = standard_pallet[i]

\* a search has run on a palette with two different colours at the same
\* minimal distance, and on one holding the query colour after a farther one
C4_Witness ==
    /\ closest.done
    /\ Len(standard_pallet) = 3
    /\ standard_pallet[1] # standard_pallet[2]
    /\ Equidistant(get_distance(color, standard_pallet[1], None),
                   get_distance(color, standard_pallet[2], None))
    /\ FracLess(get_distance(color, standard_pallet[1], None),
                get_distance(color, standard_pallet[3], None))
    /\ closest.gpu = standard_pallet[1]
    /\ closest.cpu = standard_pallet[1]

\* ------------------------------------------------------------------------
\* Properties of a palettization call
\* ------------------------------------------------------------------------
AllCoords == Coords(source_image.width, source_image.height)

\* the call is made with the palette(s) it uses non-empty
NonEmptyCall == pallet # <<>> /\ (strategy = "gpu_biased" => pallet_biased # <<>>)

\* width * height pixels were emitted and every coordinate of a
\* width x height buffer was written exactly once
Complete(run) ==
    /\ run.emitted = source_image.width * source_image.height
    /\ DOMAIN run.buffer.px = AllCoords
    /\ \A p \in AllCoords : run.buffer.puts[p] = 1

C3_PixelsCorrespond ==
    NonEmptyCall =>
        /\ cpu[1].phase = "done" =>
               \A p \in AllCoords :
                   cpu[1].buffer.px[p] = tooling_get_closest_color(pallet, source_image.px[p])
        /\ (gpu.phase = "done" /\ strategy = "gpu_evenly") =>
               \A p \in AllCoords :
                   gpu.buffer.px[p] = get_closest_color(pallet, source_image.px[p])
        /\ (gpu.phase = "done" /\ strategy = "gpu_biased") =>
               \A p \in AllCoords :
                   gpu.buffer.px[p] =
                       get_closest_color_biased(pallet_biased, pallet, source_image.px[p])

\* a GPU call has finished on an image whose pixels map to different palette
\* colours, so that the output is not of one colour
C3_Witness ==
    /\ NonEmptyCall
    /\ gpu.phase = "done"
    /\ source_image.width > 1
    /\ source_image.height > 1
    /\ \E p, q \in AllCoords : gpu.buffer.px[p] # gpu.buffer.px[q]

\* C5: two runs of the CPU palletize on the same image and palette end with
\* the same output image, whatever the order in which their row closures
\* ran and drew from the shared counter.
C5_RunsAgree ==
    /\ cpu[1].phase # "panic" /\ cpu[2].phase # "panic"
    /\ (cpu[1].phase = "done" /\ cpu[2].phase = "done") =>
           cpu[1].buffer.px = cpu[2].buffer.px

\* both runs have finished, a different row came first in each, and the
\* palette holds two colours at the same distance from a pixel
C5_Witness ==
    /\ cpu[1].phase = "done"
    /\ cpu[2].phase = "done"
    /\ cpu[1].first_row # cpu[2].first_row
    /\ Len(pallet) = 2
    /\ pallet[1] # pallet[2]
    /\ \E p \in AllCoords :
           Equidistant(get_distance_score(source_image.px[p], pallet[1]),
                       get_distance_score(source_image.px[p], pallet[2]))

\* C7: palettizing against an empty palette is the identity and does not
\* fail, in the CPU palletize and in the GPU process_evenly.
C7_EmptyPalletIsIdentity ==
    (pallet = <<>> /\ strategy \in {"cpu", "gpu_evenly"}) =>
        /\ cpu[1].phase # "panic" /\ gpu.phase # "panic"
        /\ cpu[1].phase = "done" => cpu[1].buffer.px = source_image.px
        /\ gpu.phase = "done" => gpu.buffer.px = source_image.px

\* C6: with a biased palette [p] and a standard palette [q] at the same
\* unbiased distance from the colour, the biased search returns p.
C6_BiasedWinsTie ==
    (/\ closest.done
     /\ Len(biased_pallet) = 1
     /\ Len(standard_pallet) = 1
     /\ Equidistant(get_distance(color, biased_pallet[1], None),
                    get_distance(color, standard_pallet[1], None)))
    => closest.biased = biased_pallet[1]

C6_Witness ==
    /\ closest.done
    /\ Len(biased_pallet) = 1
    /\ Len(standard_pallet) = 1
    /\ biased_pallet[1] # standard_pallet[1]
    /\ biased_pallet[1] # color
    /\ Equidistant(get_distance(color, biased_pallet[1], None),
                   get_distance(color, standard_pallet[1], None))
    /\ closest.biased = biased_pallet[1]

\* the text without one optional leading '#'
without_one_hash(text) == IF text # <<>> /\ Head(text) = "#" THEN Tail(text) ELSE text

\* C8: is_hex is true exactly for the texts that, after one optional leading
\* '#' is removed, have 3, 6 or 8 characters, all of them hexadecimal digits.
C8_IsHexIffOneHashAndDigits ==
    parsed.done =>
        (parsed.is_hex <=>
            /\ Len(without_one_hash(arg)) \in {3, 6, 8}
            /\ \A k \in 1..Len(without_one_hash(arg)) :
                   is_ascii_hexdigit(without_one_hash(arg)[k]))

\* the colour a valid code denotes: doubled nibbles for three digits, the
\* first three bytes for six and eight digits
Denoted(text) ==
    LET d == [k \in 1..Len(trim_start_matches(text)) |->
                  HexDigits[trim_start_matches(text)[k]]]
    IN  IF Len(d) = 3 THEN <<17 * d[1], 17 * d[2], 17 * d[3]>>
        ELSE <<16 * d[1] + d[2], 16 * d[3] + d[4], 16 * d[5] + d[6]>>

\* C9: for every valid hex code as_rgb returns the colour the code denotes.
C9_AsRgbDenotes ==
    (parsed.done /\ parsed.is_hex)
    => parsed.as_rgb = [kind |-> "Some", rgb |-> Denoted(arg)]

C9_Witness ==
    /\ parsed.done
    /\ arg = <<"f", "0", "0">>
    /\ parsed.is_hex
    /\ parsed.as_rgb = [kind |-> "Some", rgb |-> <<255, 0, 0>>]

\* C10: as_rgb returns None, without failing, for every text is_hex rejects
\* and Some for every text is_hex accepts.
C10_AsRgbAgreesWithIsHex ==
    parsed.done =>
        /\ parsed.is_hex => parsed.as_rgb.kind = "Some"
        /\ ~parsed.is_hex => parsed.as_rgb.kind = "None"

\* C1 as stated: every call of the condenser returns a palette of at most
\* ceiling colours.
C1_CondenseFits ==
    cond.done => (cond.result.status = "ok" /\ Len(cond.result.palette) <= cond.ceiling)

\* C1 amended: a call of the condenser either stops with the fatal
\* non-convergence error after MaxPasses passes or returns a palette of at
\* most ceiling colours.
C1_CondenseFitsOrFatal ==
    cond.done =>
        \/ cond.result.status = "fatal" /\ cond.result.passes = MaxPasses
        \/ cond.result.status = "ok" /\ Len(cond.result.palette) <= cond.ceiling

C1_Witness ==
    /\ cond.done
    /\ Len(remove_duplicates_ordered(cond.input)) > cond.ceiling
    /\ cond.result.status = "ok"
    /\ cond.result.passes >= 1
    /\ Len(cond.result.palette) <= cond.ceiling

\* C11: the unbiased distance between the query colour and every palette
\* colour is the same in both directions, and the unbiased distance of a
\* colour to itself is 0.
C11_DistanceSymmetric ==
    /\ FracIsZero(get_distance(color, color, None))
    /\ \A j \in 1..Len(standard_pallet) :
           /\ get_distance(color, standard_pallet[j], None)
                  = get_distance(standard_pallet[j], color, None)
           /\ FracIsZero(get_distance(standard_pallet[j], standard_pallet[j], None))

\* a search has measured a palette colour with a larger red and a smaller
\* green than the query colour
C11_Witness ==
    /\ closest.done
    /\ Len(standard_pallet) >= 1
    /\ standard_pallet[1][1] > color[1]
    /\ standard_pallet[1][2] < color[2]
    /\ ~FracIsZero(get_distance(color, standard_pallet[1], None))

\* C15: on every palette and pixel colour the search of the CPU strategy
\* (tooling.rs) returns the colour the search under get_distance returns.
C15_StrategiesAgree ==
    closest.done => closest.cpu = closest.gpu

\* ------------------------------------------------------------------------
\* Properties of the spectrum builders
\* ------------------------------------------------------------------------
NoDuplicates(list) == \A i, j \in 1..Len(list) : list[i] = list[j] => i = j

Contains(list, c) == \E i \in 1..Len(list) : list[i] = c

\* C12: the line spectrum of a seed starts at white, ends at black, holds
\* the seed, holds no colour twice, and runs from white down to the seed and
\* from the seed down to black: every colour before the seed is at or above
\* it in every channel, every colour after it at or below, and no channel
\* ever rises.
C12_LineSpectrum ==
    spectrum.op = "line" =>
        LET line == spectrum.colors IN
        /\ Contains(line, white) /\ Contains(line, black) /\ Contains(line, seeds[1])
        /\ NoDuplicates(line)
        /\ line[1] = white /\ line[Len(line)] = black
        /\ \A i \in 1..(Len(line) - 1) : \A ch \in 1..3 : line[i + 1][ch] <= line[i][ch]
        /\ \A i, j \in 1..Len(line) :
               (line[j] = seeds[1] /\ i < j) =>
                   \A ch \in 1..3 : line[i][ch] >= seeds[1][ch]

C12_Witness ==
    /\ spectrum.op = "line"
    /\ seeds[1] = <<34, 255, 128>>
    /\ Len(spectrum.colors) > 256
    /\ Contains(spectrum.colors, seeds[1])

\* C18: the list get_colors_between returns starts at the first colour, ends
\* at the second, and no channel changes by more than 1 between neighbours.
C18_NoValueSkipped ==
    spectrum.op = "between" =>
        LET list == spectrum.colors IN
        /\ list[1] = seeds[1]
        /\ list[Len(list)] = seeds[2]
        /\ \A i \in 1..(Len(list) - 1) : \A ch \in 1..3 :
               Abs(list[i + 1][ch] - list[i][ch]) <= 1

C18_Witness ==
    /\ spectrum.op = "between"
    /\ seeds = <<white, black>>
    /\ Len(spectrum.colors) = 256

\* ------------------------------------------------------------------------
\* Properties of accent detection
\* ------------------------------------------------------------------------
AllGray == \A i \in 1..Len(accent.pixels) :
               accent.pixels[i][1] = accent.pixels[i][2]
               /\ accent.pixels[i][2] = accent.pixels[i][3]

\* C13: on an image of grey pixels get_accent_color does not fail and
\* returns the average colour of the image, for every number of workers.
C13_GrayReturnsAverage ==
    AllGray =>
        /\ accent.phase # "panic"
        /\ accent.phase = "done" =>
               accent.result = get_average_color_from_pixels(accent.pixels)

\* C20: the pixel list is split into exactly one chunk per worker.
C20_OneChunkPerWorker ==
    /\ accent.phase # "panic"
    /\ accent.phase \in {"growing", "merging", "done"} =>
           Len(accent.chunks) = accent.chunk_count

\* ------------------------------------------------------------------------
\* Properties of try_process
\* ------------------------------------------------------------------------
Handed(pal) == pal # NoPallet

\* C14: in every mode each pallet handed to process_evenly / process_biased
\* was returned by condense_color_pallet.
C14_CondensedBeforePalletized ==
    process.result = "Some" =>
        /\ Handed(process.call.biased_pallet) => process.call.biased_pallet.condensed
        /\ Handed(process.call.standard_pallet) => process.call.standard_pallet.condensed

\* C16: in the with-accent modes the biased pallet of process_biased is the
\* one built from the detected accent colour and the standard pallet is the
\* base pallet.
C16_AccentIsBiased ==
    (process.result = "Some" /\ process.call.fn = "process_biased") =>
        /\ process.call.biased_pallet.seeds = {"get_accent_color"}
        /\ "get_accent_color" \notin process.call.standard_pallet.seeds

\* ------------------------------------------------------------------------
\* Properties of the condenser's remapping
\* ------------------------------------------------------------------------
InRange(c) == \A ch \in 1..3 : c[ch] \in 0..255

\* C17: every colour of the pallet a condensation pass produced has its three
\* channels in [0, 255].
C17_RemapInRange ==
    cond.done => \A k \in 1..Len(cond.result.palette) : InRange(cond.result.palette[k])

\* ------------------------------------------------------------------------
\* Properties of the three-seed spectrum
\* ------------------------------------------------------------------------
ColorsOf(list) == {list[k] : k \in 1..Len(list)}

\* C19: get_3d_spectrum returns, and what it returns holds exactly the
\* colours of the three plane spectra, each once.
C19_UnionOfPlanes ==
    /\ volume.phase # "panic"
    /\ volume.phase = "done" =>
           /\ ColorsOf(volume.spectrum) = ColorsOf(volume.planes)
           /\ Cardinality(ColorsOf(volume.spectrum)) = Len(volume.spectrum)

\* ------------------------------------------------------------------------
\* Properties of the progress counter of the CPU palletize
\* ------------------------------------------------------------------------
PercentageReports(run) ==
    {k \in 1..Len(run.progress) : run.progress[k].text = "Editing pixels... % complete"}

ValidHexCode(text) ==
    /\ Len(without_one_hash(text)) \in {3, 6, 8}
    /\ \A k \in 1..Len(without_one_hash(text)) : is_ascii_hexdigit(without_one_hash(text)[k])

\* C23: the Enter key on an input that is not a valid hex code leaves the
\* current step and its input as they were, leaves the edit not ready, does
\* not fail, and try_process returns None.
C23_InvalidInputKeepsStepOpen ==
    [][(edit'.last_key = "enter" /\ edit' # edit /\ ~ValidHexCode(input)) =>
           /\ edit'.current_step = edit.current_step
           /\ input' = input
           /\ ~edit'.is_ready
           /\ ~edit'.panicked
           /\ edit'.new_image = "None"]_vars

\* ------------------------------------------------------------------------
\* Properties of the pages
\* ------------------------------------------------------------------------
\* C24: on the pages SelectingProcessingType and Preprocessing the selected
\* image path is set, and it is the path of an image of the source list.
C24_SelectedPathIsSet ==
    (app.ended # "panic" /\ app.current_page \in {"SelectingProcessingType", "Preprocessing"}) =>
        /\ app.selected_image_path = "Some"
        /\ app.selected_index \in 0..(app.paths - 1)

\* the Preprocessing page, reached again after a reset, with the second
\* image selected
C24_Witness ==
    /\ app.current_page = "Preprocessing"
    /\ app.was_reset
    /\ app.ended = "running"
    /\ app.selected_image_path = "Some"
    /\ app.selected_index = 1

\* ------------------------------------------------------------------------
\* Properties of the biased search on empty pallets
\* ------------------------------------------------------------------------
\* C25: the biased search returns a colour of one of the two pallets when
\* one of them is not empty, the nearest standard colour when only the
\* biased pallet is empty, and the colour itself when both are empty.
C25_BiasedReturnsMember ==
    closest.done =>
        /\ (biased_pallet # <<>> \/ standard_pallet # <<>>) =>
               \/ Contains(biased_pallet, closest.biased)
               \/ Contains(standard_pallet, closest.biased)
        /\ (biased_pallet = <<>> /\ standard_pallet # <<>>) =>
               closest.biased = get_closest_color(standard_pallet, color)
        /\ (biased_pallet = <<>> /\ standard_pallet = <<>>) => closest.biased = color

\* ------------------------------------------------------------------------
\* Properties of the accent clustering
\* ------------------------------------------------------------------------
\* C28: get_accent_color does not fail, and the chunk size it hands to
\* chunks() is at least 1.
C28_ChunkSizeNeverZero ==
    accent.phase \notin {"idle", "called"} =>
        /\ accent.phase # "panic"
        /\ accent.pixels_per_chunk >= 1

\* the number of times colour c occurs in a list, and in the regions of a list
Occurrences(list, c) == Cardinality({i \in 1..Len(list) : list[i] = c})
RECURSIVE RegionOccurrences(_, _)
RegionOccurrences(regions, c) ==
    IF regions = <<>> THEN 0
    ELSE Occurrences(Head(regions).colors, c) + RegionOccurrences(Tail(regions), c)
RECURSIVE RegionTotal(_)
RegionTotal(regions) ==
    IF regions = <<>> THEN 0 ELSE Len(Head(regions).colors) + RegionTotal(Tail(regions))
AccentCandidates(list) == SelectSeq(list, is_accent_color)

\* C29: while the chunks grow their regions every accent pixel a chunk has
\* taken is in exactly one of its regions; during and after the merge every
\* accent pixel of the image is in exactly one region of the merged regions
\* and the overlapping regions still to merge, so at the end the sizes of
\* the merged regions add up to the number of accent pixels.
C29_PixelsConserved ==
    /\ accent.phase = "growing" =>
           \A k \in 1..Len(accent.chunks) : \A c \in AccentPixels :
               RegionOccurrences(accent.accent_regions[k], c)
                   = Occurrences(AccentCandidates(
                         SubSeq(accent.chunks[k], 1, accent.pos[k])), c)
    /\ accent.phase \in {"merging", "done"} =>
           /\ \A c \in AccentPixels :
                  RegionOccurrences(accent.merged_accent_regions, c)
                  + RegionOccurrences(
                        SubSeq(accent.overlapping_accent_regions, accent.merge_pos + 1,
                               Len(accent.overlapping_accent_regions)), c)
                      = Occurrences(AccentCandidates(accent.pixels), c)
           /\ accent.phase = "done" =>
                  RegionTotal(accent.merged_accent_regions)
                      = Len(AccentCandidates(accent.pixels))

\* the end of a call in which the regions of two chunks were merged into one
C29_Witness ==
    /\ accent.phase = "done"
    /\ Len(accent.overlapping_accent_regions) >= 2
    /\ Len(accent.merged_accent_regions) = 1
    /\ Len(accent.merged_accent_regions[1].colors) >= 2

\* the regions a chunk has grown when it has taken its first n pixels, the
\* merged regions after the first n overlapping regions, and the colour
\* returned for merged regions: the sequential computation
RECURSIVE GrownAfter(_, _)
GrownAfter(chunk, n) ==
    IF n = 0 THEN <<>>
    ELSE IF is_accent_color(chunk[n]) THEN grow(GrownAfter(chunk, n - 1), chunk[n])
    ELSE GrownAfter(chunk, n - 1)
RECURSIVE MergedAfter(_, _)
MergedAfter(overlapping, n) ==
    IF n = 0 THEN <<>> ELSE merge(MergedAfter(overlapping, n - 1), overlapping[n])
OverlappingOf(chunks) == concat([k \in 1..Len(chunks) |-> GrownAfter(chunks[k], Len(chunks[k]))])
SelectedOf(merged, average_image_color) ==
    IF merged = <<>> THEN average_image_color
    ELSE merged[greatest_scan(merged, average_image_color, 1,
                              [num |-> BigOfInt(0), den |-> 1], 1)].average_color

\* C22: whatever the order in which the chunks take their pixels, the regions
\* of each chunk, the list of the regions of all chunks, the merged regions
\* and the returned colour are those of the sequential computation on the
\* same chunks.
C22_AccentDeterministic ==
    /\ accent.phase = "growing" =>
           \A k \in 1..Len(accent.chunks) :
               accent.accent_regions[k] = GrownAfter(accent.chunks[k], accent.pos[k])
    /\ accent.phase \in {"merging", "done"} =>
           /\ accent.chunks = slice_chunks(accent.pixels, accent.pixels_per_chunk)
           /\ accent.overlapping_accent_regions = OverlappingOf(accent.chunks)
           /\ accent.merged_accent_regions
                  = MergedAfter(OverlappingOf(accent.chunks), accent.merge_pos)
    /\ accent.phase = "done" =>
           accent.result
               = SelectedOf(MergedAfter(OverlappingOf(accent.chunks),
                                        Len(OverlappingOf(accent.chunks))),
                            get_average_color_from_pixels(accent.pixels))

\* the second chunk has grown a region before the first chunk took a pixel
C22_Witness ==
    /\ accent.phase = "growing"
    /\ Len(accent.chunks) >= 2
    /\ accent.pos[1] = 0
    /\ accent.pos[2] = Len(accent.chunks[2])
    /\ Len(accent.accent_regions[2]) = 1
    /\ is_accent_color(accent.chunks[1][1])

\* ------------------------------------------------------------------------
\* Properties of the cross product of get_inside_colors_at_blue_value
\* ------------------------------------------------------------------------
\* C27: for the edge colours of every blue value get_3d_spectrum comes to,
\* no operation of the cross product that is evaluated leaves 0..255.
C27_CrossStaysInU8 ==
    (volume.phase = "filling" /\ volume.b <= 255) =>
        ~get_inside_colors_at_blue_value(volume.spectrum, volume.b, TRUE).panic

\* ------------------------------------------------------------------------
\* Properties of get_2d_spectrum
\* ------------------------------------------------------------------------
\* C26: the spectrum get_2d_spectrum returns holds every colour of the line
\* spectra of both seeds, and so both seeds, white and black.
C26_PlaneHoldsBothLines ==
    plane.phase \in {"built", "searching", "palletized"} =>
        \A run \in 1..2 :
            /\ ColorsOf(plane.spectrum_1) \subseteq ColorsOf(plane.built[run])
            /\ ColorsOf(plane.spectrum_2) \subseteq ColorsOf(plane.built[run])
            /\ {plane.seeds[1], plane.seeds[2], white, black}
                   \subseteq ColorsOf(plane.built[run])

\* C30: the searches of a pixel in the results of the two calls return the
\* same colour.
C30_OrderDoesNotMatter ==
    plane.phase = "palletized" => plane.closest_color[1] = plane.closest_color[2]

====
